---- MODULE Spec2Model ----
(***************************************************************************)
(* Model of the Tamsil endpoint agent.                                     *)
(*                                                                         *)
(* Part 1: the execution service's patch-job loop                          *)
(* (src/agent/src/execution/main.cpp) together with the signed command     *)
(* channel (src/agent/src/agent_patch_jobs.cpp), the signing primitives    *)
(* (src/agent/src/agent_signing.cpp) and the patch executor                *)
(* (src/agent/src/execution/ExecutionService_stub.cpp).                    *)
(*                                                                         *)
(* Time is counted in whole seconds of the system clock.  Sleep(ms) lasts  *)
(* its nominal duration; HTTP round trips take no clock time.              *)
(***************************************************************************)
EXTENDS Integers, Sequences, FiniteSets, TLC

\* ------------------------------------------------------------------ bounds
StartTime == 1000          \* clock value when the service starts polling
Horizon == 6               \* the clock is followed up to StartTime + Horizon
MaxJobs == 2               \* commands accepted in one run of the model
MaxPollInterval == 2       \* largest patch_poll_interval_seconds tried

MaxTime == StartTime + Horizon

DefHorizon == 3            \* the defence module's clock runs from 0 to DefHorizon
MaxPending == 2            \* findings held by the caller before they are applied
MaxTaken == 3              \* response actions taken in one run of the model
MaxActions == 2            \* largest max_actions_per_window tried
WindowSeconds == 2         \* the positive action_window_seconds tried
MaxFailures == 3           \* largest failure_count tried

\* ------------------------------------------------------- program constants
kSignatureSkewSeconds == 300
SevenDays == 7 * 24 * 3600

VARIABLES
    now,        \* std::chrono::system_clock::now(), in seconds
    config,     \* agent::Config as loaded once at startup
    pc,         \* position of main()'s job loop
    command,    \* agent_patch::PatchJobCommand of the current iteration
    job,        \* agent_execution::PatchJob of the current iteration
    result,     \* agent_execution::PatchJobResult of the current iteration
    lastPoll,   \* input and outcome of the latest PollNextPatchJob call
    accepted,   \* nonces of the commands PollNextPatchJob has returned
    executed,   \* nonces of the commands the executor was invoked for
    log,        \* outward calls of the current loop iteration, in order
    attempts,   \* outcome of each result upload and of the last ack, in order
    shutdown    \* the service-stop request, and where the loop was then

jobVars == <<now, config, pc, command, job, result, lastPoll, accepted, executed, log,
             attempts, shutdown>>

\* The defence module (src/agent/src/agent_defence.cpp).
VARIABLES
    policy,             \* DefenceModule::policy_
    action_timestamps,  \* DefenceModule::action_timestamps_
    def_now,            \* system_clock::now() as the defence module reads it
    findings,           \* findings EvaluateSignal returned, not yet applied
    def_last,           \* the latest call on the module, its input and output
    actions_taken       \* times at which a response other than ObserveOnly was taken

defVars == <<policy, action_timestamps, def_now, findings, def_last, actions_taken>>

\* The heartbeat backoff function (src/agent/src/agent_retry.cpp).
VARIABLES
    retry_in,           \* arguments of ComputeHeartbeatIntervalSeconds
    retry_out           \* its results for failure_count and failure_count + 1

retryVars == <<retry_in, retry_out>>

\* The heartbeat sender (src/agent/src/main.cpp).
VARIABLES
    hb                  \* state of main(): position, config, POST outcome, exit code

hbVars == <<hb>>

\* The heartbeat watchdog (src/agent/src/agent_watchdog.cpp).
VARIABLES
    wd,                 \* HeartbeatWatchdog: timeout_, running_, last_tick_, the worker
    wd_clock            \* system_clock::now(), in ticks of 1 / TicksPerSecond second

wdVars == <<wd, wd_clock>>

\* The evidence broker (src/agent/src/core/evidence_impl.cpp).
VARIABLES
    evidence_store,     \* EvidenceBroker::evidence_store_
    g_evidence_mutex,   \* the thread that holds g_evidence_mutex, or "free"
    ev_threads,         \* each calling thread: its call and its position in it
    artefacts,          \* the file at each storage_path
    evidence_packages,  \* the directory evidence_packages/<evidence_id>
    uplink_queue,       \* the file <queue_dir>/evidence_<evidence_id>.json
    ev_last,            \* the latest call that took the mutex, its message and return value
    ev_seals            \* for each stored item, what SealEvidence hashed for it

evVars == <<evidence_store, g_evidence_mutex, ev_threads, artefacts, evidence_packages,
            uplink_queue, ev_last, ev_seals>>

\* The named-pipe IPC (src/agent/ipc/named_pipe_ipc.cpp) and the core
\* service's receive loop (src/agent/src/core/main.cpp).
VARIABLES
    pipe,               \* bytes written by the client and not yet read by the server
    ipc_srv,            \* main()'s position, NamedPipeServer and ReadMessage's locals
    ipc_cli,            \* the client process at the other end of the pipe instance
    ipc_call            \* one WriteMessage or ReadMessage call on a size, and its result

ipcVars == <<pipe, ipc_srv, ipc_cli, ipc_call>>

\* Pipe-name resolution (src/agent/ipc/named_pipe_ipc.cpp 9-32, 138-144).
VARIABLES
    pn                  \* one pipe name, and what the server and the client make of it

pnVars == <<pn>>

\* The launcher / supervisor (src/agent/src/launcher/main.cpp).
VARIABLES
    lch,                \* the launcher: its threads' positions, children, g_stopEvent, status
    lch_procs           \* the worker processes as the operating system has them

lchVars == <<lch, lch_procs>>

\* Signing round trips (src/agent/src/agent_signing.cpp).
VARIABLES
    sgn                 \* one SignPayload call and the VerifySignature calls on its result

sgnVars == <<sgn>>

\* Acknowledgement and result POSTs (src/agent/src/agent_patch_jobs.cpp).
VARIABLES
    post                \* one AcknowledgePatchJob or ReportPatchResult call

postVars == <<post>>

\* Configuration loading (src/agent/src/agent_config.cpp).
VARIABLES
    cfgload             \* the INI file, the environment and the Config that LoadConfig returns

cfgVars == <<cfgload>>

\* The watchdog object as several threads call it (agent_watchdog.cpp 19-49).
VARIABLES
    wt,                 \* running_, worker_, the worker threads created, calls made
    wt_callers          \* where each calling thread is inside Start, Stop or the destructor

wtVars == <<wt, wt_callers>>

vars == <<jobVars, defVars, retryVars, hbVars, wdVars, evVars, ipcVars, pnVars, lchVars, sgnVars, postVars, cfgVars, wtVars>>
outsideJob == <<defVars, retryVars, hbVars, wdVars, evVars, ipcVars, pnVars, lchVars, sgnVars, postVars, cfgVars, wtVars>>
outsideDefence == <<jobVars, retryVars, hbVars, wdVars, evVars, ipcVars, pnVars, lchVars, sgnVars, postVars, cfgVars, wtVars>>
outsideRetry == <<jobVars, defVars, hbVars, wdVars, evVars, ipcVars, pnVars, lchVars, sgnVars, postVars, cfgVars, wtVars>>
outsideHeartbeat == <<jobVars, defVars, retryVars, wdVars, evVars, ipcVars, pnVars, lchVars, sgnVars, postVars, cfgVars, wtVars>>
outsideWatchdog == <<jobVars, defVars, retryVars, hbVars, evVars, ipcVars, pnVars, lchVars, sgnVars, postVars, cfgVars, wtVars>>
outsideEvidence == <<jobVars, defVars, retryVars, hbVars, wdVars, ipcVars, pnVars, lchVars, sgnVars, postVars, cfgVars, wtVars>>
outsideIpc == <<jobVars, defVars, retryVars, hbVars, wdVars, evVars, pnVars, lchVars, sgnVars, postVars, cfgVars, wtVars>>
outsidePipeName == <<jobVars, defVars, retryVars, hbVars, wdVars, evVars, ipcVars, lchVars, sgnVars, postVars, cfgVars, wtVars>>
outsideLauncher == <<jobVars, defVars, retryVars, hbVars, wdVars, evVars, ipcVars, pnVars, sgnVars, postVars, cfgVars, wtVars>>
outsideSigning == <<jobVars, defVars, retryVars, hbVars, wdVars, evVars, ipcVars, pnVars, lchVars, postVars, cfgVars, wtVars>>
outsidePost == <<jobVars, defVars, retryVars, hbVars, wdVars, evVars, ipcVars, pnVars, lchVars, sgnVars, cfgVars, wtVars>>
outsideConfig == <<jobVars, defVars, retryVars, hbVars, wdVars, evVars, ipcVars, pnVars, lchVars, sgnVars, postVars, wtVars>>
outsideWatchdogThreads == <<jobVars, defVars, retryVars, hbVars, wdVars, evVars, ipcVars, pnVars, lchVars, sgnVars, postVars, cfgVars>>

Abs(x) == IF x < 0 THEN 0 - x ELSE x
Min(a, b) == IF a < b THEN a ELSE b
Last(s) == s[Len(s)]

\* ------------------------------------------------------------ timestamps
\* An ISO-8601 text is modelled by its kind: a well-formed
\* "%Y-%m-%dT%H:%M:%SZ" text for second t, the empty text, or a text
\* std::get_time cannot parse.
EmptyText == [kind |-> "empty", t |-> 0]
BadText == [kind |-> "bad", t |-> 0]

BuildIsoTimestamp(time_point) == [kind |-> "iso", t |-> time_point]

ParseIsoTimestamp(value, t_now) ==
    IF value.kind = "empty" THEN t_now
    ELSE IF value.kind # "iso" THEN t_now
    ELSE value.t

\* ---------------------------------------------------------------- signing
\* HMAC-SHA256 followed by base64 is modelled as an injective function of
\* (key, "<ts>.<payload>").
NoSignature == <<>>

SignPayloadWithoutTimestamp(shared_key, payload, timestamp_seconds) ==
    <<shared_key, 0, payload>>

SignPayload(shared_key, payload, timestamp_seconds) ==
    <<shared_key, timestamp_seconds, payload>>

SecureEquals(lhs, rhs) == lhs = rhs

VerifySignature(shared_key, payload, timestamp_seconds, signature) ==
    IF shared_key = "" THEN FALSE
    ELSE SecureEquals(SignPayload(shared_key, payload, timestamp_seconds), signature)

BuildSignaturePayload(c) ==
    [job_id |-> c.job_id,
     asset_id |-> c.asset_id,
     scheduled_at |-> IF c.scheduled_at_raw.kind = "empty"
                      THEN BuildIsoTimestamp(c.scheduled_at)
                      ELSE c.scheduled_at_raw,
     reboot_policy |-> c.reboot_policy,
     issued_at |-> c.issued_at_epoch,
     nonce |-> c.nonce,
     patches |-> c.patches]

ValidateSignatureOffByOne(cfg, c, t_now) ==
    IF cfg.shared_key = "" THEN FALSE
    ELSE IF c.issued_at_epoch = 0
            \/ Abs(t_now - c.issued_at_epoch) >= kSignatureSkewSeconds THEN FALSE
    ELSE VerifySignature(cfg.shared_key, BuildSignaturePayload(c),
                         c.issued_at_epoch, c.signature)

ValidateSignature(cfg, c, t_now) ==
    IF cfg.shared_key = "" THEN FALSE
    ELSE IF c.issued_at_epoch = 0
            \/ Abs(t_now - c.issued_at_epoch) > kSignatureSkewSeconds THEN FALSE
    ELSE VerifySignature(cfg.shared_key, BuildSignaturePayload(c),
                         c.issued_at_epoch, c.signature)

\* ------------------------------------------------------- command channel
NoCommand ==
    [job_id |-> "", asset_id |-> "", reboot_policy |-> "",
     scheduled_at |-> 0, scheduled_at_raw |-> EmptyText, patches |-> <<>>,
     issued_at_epoch |-> 0, nonce |-> "", signature |-> NoSignature]

\* The fields PollNextPatchJob extracts from a 2xx response body.
ParseCommand(body, t_now) ==
    [job_id |-> body.job_id,
     asset_id |-> body.asset_id,
     reboot_policy |-> body.reboot_policy,
     issued_at_epoch |-> body.issued_at,
     nonce |-> body.nonce,
     signature |-> body.signature,
     scheduled_at_raw |-> body.scheduled_at,
     scheduled_at |-> ParseIsoTimestamp(body.scheduled_at, t_now),
     patches |-> SelectSeq(body.patches, LAMBDA p : p.patch_id # "")]

PollNextPatchJob(cfg, resp, t_now) ==
    IF ~resp.curl_ok THEN [ok |-> FALSE, why |-> "transport", command |-> NoCommand]
    ELSE IF resp.http_code = 204 THEN [ok |-> FALSE, why |-> "no_job", command |-> NoCommand]
    ELSE IF resp.http_code < 200 \/ resp.http_code >= 300
         THEN [ok |-> FALSE, why |-> "status", command |-> NoCommand]
    ELSE IF resp.body.job_id = "" THEN [ok |-> FALSE, why |-> "no_job_id", command |-> NoCommand]
    ELSE LET c == ParseCommand(resp.body, t_now) IN
         IF c.asset_id # "" /\ c.asset_id # cfg.asset_id
         THEN [ok |-> FALSE, why |-> "asset_mismatch", command |-> NoCommand]
         ELSE IF ~ValidateSignature(cfg, c, t_now)
         THEN [ok |-> FALSE, why |-> "signature", command |-> NoCommand]
         ELSE [ok |-> TRUE, why |-> "accepted", command |-> c]

\* --------------------------------------------------------------- executor
NoResult == [job_id |-> "", status |-> "", result |-> "", exit_code |-> 0,
             reboot_required |-> FALSE]

ApplyPatchJob(j) ==
    [job_id |-> j.job_id,
     status |-> IF j.patches = <<>> THEN "failed" ELSE "completed",
     result |-> IF j.patches = <<>> THEN "no_patches" ELSE "installed",
     exit_code |-> IF j.patches = <<>> THEN 2 ELSE 0,
     reboot_required |-> (j.reboot_policy = "required")]

\* ------------------------------------------------ control-plane responses
ControlPlaneKey == "k"

NoBody == [job_id |-> "", asset_id |-> "", reboot_policy |-> "", issued_at |-> 0,
           nonce |-> "", signature |-> NoSignature, scheduled_at |-> EmptyText,
           patches |-> <<>>]

Patch1 == [patch_id |-> "p1", title |-> "t", vendor |-> "v", severity |-> "high",
           kb |-> "KB1"]

\* An unsigned command for this asset, issued now, scheduled one second ahead.
BaseBody(t) ==
    [job_id |-> "j1", asset_id |-> "A", reboot_policy |-> "none", issued_at |-> t,
     nonce |-> "n1", signature |-> NoSignature,
     scheduled_at |-> BuildIsoTimestamp(t + 1), patches |-> <<Patch1>>]

ScheduleTexts(t) == {EmptyText, BadText, BuildIsoTimestamp(t + 1),
                     BuildIsoTimestamp(t + 3),
                     BuildIsoTimestamp(t + SevenDays + 1)}

\* The commands the control plane may hold: the base command with its
\* schedule and patch list varied, and with one other field changed.
UnsignedBodies(t) ==
    {[BaseBody(t) EXCEPT !.scheduled_at = s, !.patches = p] :
        s \in ScheduleTexts(t), p \in {<<>>, <<Patch1>>}}
    \cup {[BaseBody(t) EXCEPT !.job_id = j] : j \in {"", "j2"}}
    \cup {[BaseBody(t) EXCEPT !.asset_id = a] : a \in {"", "B"}}
    \cup {[BaseBody(t) EXCEPT !.nonce = "n2"]}
    \cup {[BaseBody(t) EXCEPT !.issued_at = i] :
            i \in {0, t - (kSignatureSkewSeconds + 1), t - kSignatureSkewSeconds,
                   t + kSignatureSkewSeconds, t + kSignatureSkewSeconds + 1}}

\* The signature an issuer holding `key` computes for the command as the
\* agent will parse it at second t.
IssuerSignature(key, body, t) ==
    SignPayload(key, BuildSignaturePayload(ParseCommand(body, t)), body.issued_at)

Bodies(t) ==
    {[b EXCEPT !.signature = IssuerSignature(ControlPlaneKey, b, t)] :
        b \in UnsignedBodies(t)}
    \cup {[BaseBody(t) EXCEPT !.signature = IssuerSignature("other", BaseBody(t), t)],
          [BaseBody(t) EXCEPT !.signature =
              IssuerSignature(ControlPlaneKey, [BaseBody(t) EXCEPT !.job_id = "jx"], t)],
          BaseBody(t)}

Responses(t) ==
    {[curl_ok |-> FALSE, http_code |-> 0, body |-> NoBody],
     [curl_ok |-> TRUE, http_code |-> 204, body |-> NoBody],
     [curl_ok |-> TRUE, http_code |-> 500, body |-> NoBody]}
    \cup {[curl_ok |-> TRUE, http_code |-> 200, body |-> b] : b \in Bodies(t)}

\* ----------------------------------------------------------- the job loop
NoJob == [job_id |-> "", asset_id |-> "", reboot_policy |-> "", scheduled_at |-> 0,
          patches |-> <<>>]

NoPoll == [ok |-> FALSE, why |-> "none", at |-> 0,
           resp |-> [curl_ok |-> FALSE, http_code |-> 0, body |-> NoBody]]

\* One outward call of the loop: an acknowledgement ("ack"), the executor
\* ("exec"), or a result upload ("rmm", "report", "psa").
Event(type, job_id, status, detail, at) ==
    [type |-> type, job_id |-> job_id, status |-> status, detail |-> detail, at |-> at]

poll_interval == config.patch_poll_interval_seconds

NoShutdown == [requested |-> FALSE, pc |-> "", seen |-> 0]

\* ---------------------------------------------- components not yet started
\* A DefencePolicy, BehaviourSignal, DefenceFinding and DefenceEvidence
\* value-initialised as by `T x{}` (agent_defence.h).
NoPolicy ==
    [mode |-> "observe", min_confidence_threshold |-> 0, max_actions_per_window |-> 0,
     action_window_seconds |-> 0, allow_kill_process |-> FALSE,
     allow_quarantine_file |-> FALSE, allow_block_network |-> FALSE,
     allow_prevent_execution |-> FALSE]

NoSignal ==
    [name |-> "", rule_id |-> "", process_id |-> "", file_path |-> "", confidence |-> 0,
     response_defined |-> FALSE, requested_response |-> "ObserveOnly"]

NoFinding ==
    [detection_id |-> "", rule_id |-> "", confidence |-> 0, process_id |-> "",
     file_path |-> "", proposed_response |-> "ObserveOnly", decision_reason |-> ""]

NoEvidence ==
    [finding_id |-> "", action |-> "ObserveOnly", permitted_by_policy |-> FALSE,
     decision_reason |-> ""]

NoDefenceCall ==
    [op |-> "none", signal |-> NoSignal, finding |-> NoFinding, evidence |-> NoEvidence,
     before |-> <<>>, checked |-> FALSE, recorded |-> FALSE, at |-> 0]

DefenceIdle ==
    /\ policy = NoPolicy
    /\ action_timestamps = <<>>
    /\ def_now = 0
    /\ findings = <<>>
    /\ def_last = NoDefenceCall
    /\ actions_taken = <<>>

NoRetryIn == [base |-> 0, failure_count |-> 0, cap |-> 0]

RetryIdle ==
    /\ retry_in = NoRetryIn
    /\ retry_out = <<>>

NoHeartbeat ==
    [pc |-> "off", tenant_id |-> "", asset_id |-> "", identity_id |-> "",
     shared_key |-> "", posts |-> 0, post_failed |-> FALSE, status_code |-> 0,
     exit_code |-> 0]

HeartbeatIdle == hb = NoHeartbeat

NoWatchdogCheck == [valid |-> FALSE, at |-> 0, event |-> 0, alert |-> FALSE]

NoWatchdog ==
    [timeout |-> 0, running |-> FALSE, worker |-> "none", last_tick |-> 0, wake |-> 0,
     event |-> 0, alerted |-> FALSE, check |-> NoWatchdogCheck]

WatchdogIdle ==
    /\ wd = NoWatchdog
    /\ wd_clock = 0

NoEvidenceCall == [op |-> "none", evidence_id |-> "", out |-> "", ret |-> <<>>]

EvidenceIdle ==
    /\ evidence_store = <<>>
    /\ g_evidence_mutex = "free"
    /\ ev_threads = <<>>
    /\ artefacts = <<>>
    /\ evidence_packages = <<>>
    /\ uplink_queue = <<>>
    /\ ev_last = NoEvidenceCall
    /\ ev_seals = <<>>

NoServer ==
    [pc |-> "off", recovering |-> FALSE, to_read |-> 0, out_msg |-> <<>>,
     received |-> <<>>, session |-> 0, read_failed |-> FALSE, short_header |-> FALSE,
     exit_code |-> 0]

NoClient ==
    [connected |-> FALSE, gone |-> FALSE, foreign |-> FALSE, sent |-> <<>>, n |-> 0]

NoIpcCall ==
    [op |-> "none", endpoint |-> "", size |-> [wraps |-> 0, low |-> 0], done |-> FALSE,
     ok |-> FALSE, header |-> 0, bytes |-> 0]

IpcIdle ==
    /\ pipe = <<>>
    /\ ipc_srv = NoServer
    /\ ipc_cli = NoClient
    /\ ipc_call = NoIpcCall

NoPipeName ==
    [name |-> <<>>, done |-> FALSE, sanitised |-> <<>>, server_path |-> <<>>,
     client_path |-> <<>>]

PipeNameIdle == pn = NoPipeName

NoLauncher ==
    [mode |-> "off", pc |-> "off", next |-> 0, children |-> <<>>, stop_event |-> "null",
     status |-> "none", ctrl |-> "idle", console |-> "off"]

LauncherIdle ==
    /\ lch = NoLauncher
    /\ lch_procs = <<>>

SigningIdle == sgn = <<>>

PostIdle == post = <<>>

ConfigIdle == cfgload = <<>>

WatchdogThreadsIdle ==
    /\ wt = <<>>
    /\ wt_callers = <<>>

Init ==
    /\ now = StartTime
    /\ config \in [asset_id : {"A"}, shared_key : {ControlPlaneKey, ""},
                   patch_poll_interval_seconds : 1..MaxPollInterval]
    /\ pc = "poll"
    /\ command = NoCommand
    /\ job = NoJob
    /\ result = NoResult
    /\ lastPoll = NoPoll
    /\ accepted = <<>>
    /\ executed = <<>>
    /\ log = <<>>
    /\ attempts = <<>>
    /\ shutdown = NoShutdown
    /\ DefenceIdle
    /\ RetryIdle
    /\ HeartbeatIdle
    /\ WatchdogIdle
    /\ EvidenceIdle
    /\ IpcIdle
    /\ WatchdogThreadsIdle
    /\ ConfigIdle
    /\ PostIdle
    /\ SigningIdle
    /\ LauncherIdle
    /\ PipeNameIdle

\* main.cpp 62-66: the poll returned no command; Sleep(poll_interval_ms).
PollNothing ==
    /\ pc = "poll"
    /\ now + poll_interval <= MaxTime
    /\ \E resp \in Responses(now) :
         LET r == PollNextPatchJob(config, resp, now) IN
           /\ ~r.ok
           /\ lastPoll' = [ok |-> FALSE, why |-> r.why, at |-> now, resp |-> resp]
    /\ now' = now + poll_interval
    /\ UNCHANGED <<config, pc, command, job, result, accepted, executed, log, attempts,
                   shutdown, outsideJob>>

\* main.cpp 62-88: the poll returned a command; ack "received"; build job.
PollCommand ==
    /\ pc = "poll"
    /\ Len(accepted) < MaxJobs
    /\ \E resp \in Responses(now) :
         LET r == PollNextPatchJob(config, resp, now) IN
           /\ r.ok
           /\ lastPoll' = [ok |-> TRUE, why |-> r.why, at |-> now, resp |-> resp]
           /\ command' = r.command
           /\ accepted' = Append(accepted, r.command.nonce)
           /\ log' = <<Event("ack", r.command.job_id, "received",
                             "Job accepted for execution.", now)>>
           /\ job' = [job_id |-> r.command.job_id,
                      asset_id |-> config.asset_id,
                      reboot_policy |-> r.command.reboot_policy,
                      scheduled_at |-> r.command.scheduled_at,
                      patches |-> r.command.patches]
    /\ pc' = "wait"
    /\ UNCHANGED <<now, config, result, executed, attempts, shutdown, outsideJob>>

\* main.cpp 90: the condition of the scheduled-wait loop.
ScheduledWaitPendingLate(t_now, scheduled_at) == t_now + 1 < scheduled_at

ScheduledWaitPending(t_now, scheduled_at) == t_now < scheduled_at

\* main.cpp 100: the length of one sleep of the scheduled wait, in seconds.
SleepSecondsWhole(remaining, interval) == remaining

SleepSeconds(remaining, interval) == Min(remaining, interval)

\* main.cpp 90-102: one iteration of the wait: ack "scheduled", then sleep.
WaitScheduled ==
    /\ pc = "wait"
    /\ ScheduledWaitPending(now, job.scheduled_at)
    /\ LET remaining == job.scheduled_at - now
           sleep == SleepSeconds(remaining, poll_interval) IN
         /\ remaining > 0
         /\ now + sleep <= MaxTime
         /\ now' = now + sleep
    /\ log' = Append(log, Event("ack", command.job_id, "scheduled",
                                "Waiting until scheduled window.", now))
    /\ UNCHANGED <<config, pc, command, job, result, lastPoll, accepted, executed, attempts,
                   shutdown, outsideJob>>

\* main.cpp 104-105: the wait is over; the executor is invoked.
InvokeExecutor ==
    /\ pc = "wait"
    /\ ~ScheduledWaitPending(now, job.scheduled_at)
    /\ result' = ApplyPatchJob(job)
    /\ executed' = Append(executed, command.nonce)
    /\ log' = Append(log, Event("exec", job.job_id, ApplyPatchJob(job).status, "", now))
    /\ pc' = "rmm"
    /\ UNCHANGED <<now, config, command, job, lastPoll, accepted, attempts, shutdown,
                   outsideJob>>

\* main.cpp 107-118: rmm_client.SendPatchJob(patch_job)
SendPatchJob ==
    /\ pc = "rmm"
    /\ log' = Append(log, Event("rmm", result.job_id, result.status, result.result, now))
    /\ pc' = "report"
    /\ \E ok \in BOOLEAN : attempts' = Append(attempts, [step |-> "rmm", ok |-> ok])
    /\ UNCHANGED <<now, config, command, job, result, lastPoll, accepted, executed,
                   shutdown, outsideJob>>

\* main.cpp 120: patch_client.ReportPatchResult(result)
ReportPatchResult ==
    /\ pc = "report"
    /\ log' = Append(log, Event("report", result.job_id, result.status, result.result, now))
    /\ pc' = "psa"
    /\ \E ok \in BOOLEAN : attempts' = Append(attempts, [step |-> "report", ok |-> ok])
    /\ UNCHANGED <<now, config, command, job, result, lastPoll, accepted, executed,
                   shutdown, outsideJob>>

\* main.cpp 122-136: agent_uplink::UploadPatchResult(psa_payload)
UploadPatchResultSkipped ==
    /\ pc = "psa"
    /\ pc' = "ack"
    /\ UNCHANGED <<now, config, command, job, result, lastPoll, accepted, executed, log,
                   attempts, shutdown, outsideJob>>

UploadPatchResult ==
    /\ pc = "psa"
    /\ log' = Append(log, Event("psa", result.job_id, result.status, result.result, now))
    /\ pc' = "ack"
    /\ \E ok \in BOOLEAN : attempts' = Append(attempts, [step |-> "psa", ok |-> ok])
    /\ UNCHANGED <<now, config, command, job, result, lastPoll, accepted, executed,
                   shutdown, outsideJob>>

\* main.cpp 138-141: the last acknowledgement of the iteration.
TerminalAckOnSuccessOnly ==
    /\ pc = "ack"
    /\ \A i \in 1..Len(attempts) : attempts[i].ok
    /\ log' = Append(log, Event("ack", command.job_id, "completed",
                                "Job executed and results reported.", now))
    /\ pc' = "done"
    /\ \E ok \in BOOLEAN : attempts' = Append(attempts, [step |-> "ack", ok |-> ok])
    /\ UNCHANGED <<now, config, command, job, result, lastPoll, accepted, executed,
                   shutdown, outsideJob>>

TerminalAck ==
    /\ pc = "ack"
    /\ log' = Append(log, Event("ack", command.job_id, "completed",
                                "Job executed and results reported.", now))
    /\ pc' = "done"
    /\ \E ok \in BOOLEAN : attempts' = Append(attempts, [step |-> "ack", ok |-> ok])
    /\ UNCHANGED <<now, config, command, job, result, lastPoll, accepted, executed,
                   shutdown, outsideJob>>

\* main.cpp 142: end of the loop body; command, ack, job and result go out
\* of scope and the loop polls again.
NextIteration ==
    /\ pc = "done"
    /\ pc' = "poll"
    /\ command' = NoCommand
    /\ job' = NoJob
    /\ result' = NoResult
    /\ log' = <<>>
    /\ attempts' = <<>>
    /\ UNCHANGED <<now, config, lastPoll, accepted, executed, shutdown, outsideJob>>

Next ==
    \/ PollNothing
    \/ PollCommand
    \/ WaitScheduled
    \/ InvokeExecutor
    \/ SendPatchJob
    \/ ReportPatchResult
    \/ UploadPatchResult
    \/ TerminalAck
    \/ NextIteration

Spec == Init /\ [][Next]_vars

\* windows_service_entry.cpp 28-41: the service control handler receives
\* SERVICE_CONTROL_STOP.  It reports SERVICE_STOP_PENDING and sets nothing the
\* job loop reads; the loops of main.cpp 61 and 90 have no cancel condition.
\* `shutdown` remembers where the loop was and how many outward calls of the
\* iteration had been made when the request arrived.
RequestShutdown ==
    /\ ~shutdown.requested
    /\ shutdown' = [requested |-> TRUE, pc |-> pc, seen |-> Len(log)]
    /\ UNCHANGED <<now, config, pc, command, job, result, lastPoll, accepted, executed,
                   log, attempts, outsideJob>>

NextShutdown ==
    \/ Next
    \/ RequestShutdown

SpecShutdown == Init /\ [][NextShutdown]_vars

\* ================================================================ claims
\* The acknowledgements among the outward calls of the current iteration.
Acks == SelectSeq(log, LAMBDA e : e.type = "ack")

LogJobIds == {log[i].job_id : i \in DOMAIN log}

AckStatusesOf(job_id) ==
    LET a == SelectSeq(Acks, LAMBDA e : e.job_id = job_id)
    IN [i \in DOMAIN a |-> a[i].status]

TerminalStatuses == {"completed", "failed", "rejected"}

LifecycleStep(a, b) ==
    \/ a = "received" /\ b \in {"scheduled", "running"}
    \/ a = "scheduled" /\ b \in {"scheduled", "running"}
    \/ a = "running" /\ b \in TerminalStatuses

IsLifecyclePrefix(s) ==
    \/ Len(s) = 0
    \/ /\ s[1] = "received"
       /\ \A i \in 1..(Len(s) - 1) : LifecycleStep(s[i], s[i + 1])

\* C1: for every job_id, the statuses of the acknowledgements posted for it
\* form a prefix of received, scheduled*, running, (completed | failed |
\* rejected).
C1_AckSequenceIsLifecyclePrefix ==
    \A j \in LogJobIds : IsLifecyclePrefix(AckStatusesOf(j))

\* C2: the executor is invoked only after a `running` acknowledgement for
\* the job has been posted (after the last `scheduled` one).
C2_RunningAckBeforeExecutor ==
    \A i \in DOMAIN log :
        log[i].type = "exec" =>
            \E k \in 1..(i - 1) :
                /\ log[k].type = "ack"
                /\ log[k].status = "running"
                /\ log[k].job_id = log[i].job_id
                /\ \A m \in (k + 1)..(i - 1) : log[m].type # "ack"

\* C3: the last acknowledgement of an executed job is `completed` when the
\* executor returned a non-failure status and `failed` otherwise, and it is
\* the only terminal acknowledgement of the job.
C3_TerminalAckMatchesExecutorStatus ==
    pc = "done" =>
        /\ Last(log).type = "ack"
        /\ Last(log).status = (IF result.status = "failed" THEN "failed" ELSE "completed")
        /\ \A i \in 1..(Len(log) - 1) :
              log[i].type = "ack" => log[i].status \notin TerminalStatuses

ValidationFailures == {"asset_mismatch", "signature"}

\* C4: after a poll whose command failed validation the command is not
\* executed and a `rejected` acknowledgement for its job_id has been posted.
C4_ValidationFailureEmitsRejected ==
    (lastPoll.why \in ValidationFailures) =>
        /\ command = NoCommand
        /\ \E i \in DOMAIN log :
              /\ log[i].type = "ack"
              /\ log[i].status = "rejected"
              /\ log[i].job_id = lastPoll.resp.body.job_id

\* The three conditions of the command invariant, for the latest poll.
PolledAssetMatches == lastPoll.resp.body.asset_id = config.asset_id

PolledWithinSkew ==
    Abs(lastPoll.at - lastPoll.resp.body.issued_at) <= kSignatureSkewSeconds

PolledSignatureVerifies ==
    /\ config.shared_key # ""
    /\ lastPoll.resp.body.signature =
          IssuerSignature(config.shared_key, lastPoll.resp.body, lastPoll.at)

\* C5: whenever PollNextPatchJob returns a command, the command's asset_id
\* equals Config.asset_id, its issued_at is within 300 s of now and its
\* signature verifies over its canonical payload.
C5_PollReturnsOnlyCommandsForThisAsset ==
    lastPoll.ok => /\ PolledAssetMatches
                   /\ PolledWithinSkew
                   /\ PolledSignatureVerifies

NoDuplicates(s) == \A i, k \in DOMAIN s : i # k => s[i] # s[k]

\* C6: a nonce is accepted at most once, and the executor runs at most once
\* per nonce.
C6_NonceAcceptedAtMostOnce ==
    /\ NoDuplicates(accepted)
    /\ NoDuplicates(executed)

\* C7: a correctly signed command addressed to this asset is returned by
\* the poll exactly when |now - issued_at| <= 300.
C7_SkewWindowBoundary ==
    ( /\ lastPoll.resp.curl_ok
      /\ lastPoll.resp.http_code = 200
      /\ lastPoll.resp.body.job_id # ""
      /\ PolledAssetMatches
      /\ PolledSignatureVerifies )
    => (lastPoll.ok <=> PolledWithinSkew)

\* a command issued exactly 300 s ago was accepted
C7_Witness ==
    /\ lastPoll.ok
    /\ PolledAssetMatches
    /\ lastPoll.at - lastPoll.resp.body.issued_at = kSignatureSkewSeconds

\* The schedule of the current command is more than 7 days after its
\* receipt, or before its issued_at.
InvalidSchedule ==
    /\ command # NoCommand
    /\ command.scheduled_at_raw.kind = "iso"
    /\ \/ command.scheduled_at > lastPoll.at + SevenDays
       \/ command.scheduled_at < command.issued_at_epoch

\* C8: a verified command with an invalid schedule is never waited on
\* (no `scheduled` acknowledgement) and the executor is never invoked for it.
C8_InvalidScheduleNeverWaitedNorExecuted ==
    InvalidSchedule =>
        \A i \in DOMAIN log :
            /\ log[i].type # "exec"
            /\ ~(log[i].type = "ack" /\ log[i].status = "scheduled")

IsScheduledAck(e) == e.type = "ack" /\ e.status = "scheduled"

IndicesOf(type) == {i \in DOMAIN log : log[i].type = type}

IsTerminalAck(e) == e.type = "ack" /\ e.status \in TerminalStatuses

\* C11: after the executor returns, the result is sent to the RMM endpoint,
\* then to the PSA endpoint, and only then the terminal acknowledgement is
\* posted; no terminal acknowledgement precedes either send.
C11_ResultSendsPrecedeTerminalAck ==
    /\ \A r \in IndicesOf("rmm") : \E e \in IndicesOf("exec") : e < r
    /\ \A p \in IndicesOf("psa") : \E r \in IndicesOf("rmm") : r < p
    /\ \A i \in DOMAIN log :
          IsTerminalAck(log[i]) =>
              \E r \in IndicesOf("rmm"), p \in IndicesOf("psa") :
                  /\ r < p
                  /\ p < i
                  /\ log[r].job_id = log[i].job_id
                  /\ log[p].job_id = log[i].job_id

\* an executed job whose terminal acknowledgement has been posted
C11_Witness ==
    /\ pc = "done"
    /\ IsTerminalAck(Last(log))
    /\ IndicesOf("exec") # {}
    /\ IndicesOf("rmm") # {}
    /\ IndicesOf("psa") # {}

RetriedSteps == {"rmm", "psa", "ack"}

\* C12: when the iteration of a job is over, every post-execution step (RMM
\* send, PSA send, terminal acknowledgement) whose attempt failed has been
\* attempted again.
C12_FailedStepIsAttemptedAgain ==
    pc = "done" =>
        \A i \in DOMAIN attempts :
            (attempts[i].step \in RetriedSteps /\ ~attempts[i].ok) =>
                \E k \in DOMAIN attempts : k > i /\ attempts[k].step = attempts[i].step

IsShutdownAck(e) ==
    e.type = "ack" /\ e.status = "failed" /\ e.detail = "agent_shutdown"

\* C13: once shutdown has been requested while a job was received or
\* scheduled, the only outward call the loop still makes for it is the
\* `failed` acknowledgement with detail `agent_shutdown`.
C13_ShutdownStopsJobWithFailedAck ==
    (shutdown.requested /\ shutdown.pc = "wait") =>
        \A i \in DOMAIN log : i > shutdown.seen => IsShutdownAck(log[i])

\* ======================================================== defence module
\* The job loop is not running while another component is examined.
JobIdle ==
    /\ now = StartTime
    /\ config = [asset_id |-> "A", shared_key |-> ControlPlaneKey,
                 patch_poll_interval_seconds |-> 1]
    /\ pc = "off"
    /\ command = NoCommand
    /\ job = NoJob
    /\ result = NoResult
    /\ lastPoll = NoPoll
    /\ accepted = <<>>
    /\ executed = <<>>
    /\ log = <<>>
    /\ attempts = <<>>
    /\ shutdown = NoShutdown

\* agent_defence.h 18-24
ResponseActions ==
    {"ObserveOnly", "KillProcess", "QuarantineFile", "BlockNetwork", "PreventExecution"}

\* agent_defence.cpp 43-45
RequiresProcessId(action) == action \in {"KillProcess", "BlockNetwork"}

\* agent_defence.cpp 47-49
RequiresFilePath(action) == action \in {"QuarantineFile", "PreventExecution"}

\* agent_defence.cpp 154: "DEF-" + signal.name
DetectionId(name) == IF name = "" THEN "DEF-" ELSE "DEF-sig"

\* agent_defence.cpp 248-269
IsResponseAllowed(pol, action) ==
    IF action = "ObserveOnly" THEN TRUE
    ELSE IF pol.mode = "observe" THEN FALSE
    ELSE CASE action = "KillProcess" -> pol.allow_kill_process
           [] action = "QuarantineFile" -> pol.allow_quarantine_file
           [] action = "BlockNetwork" -> pol.allow_block_network
           [] action = "PreventExecution" -> pol.allow_prevent_execution
           [] OTHER -> FALSE

\* agent_defence.cpp 271-280: const; counts the entries at or after the
\* cutoff and leaves the window as it is.
IsRateLimitedStrict(pol, window, t) ==
    IF pol.max_actions_per_window <= 0 \/ pol.action_window_seconds <= 0
    THEN FALSE
    ELSE LET cutoff == t - pol.action_window_seconds
             count == Cardinality({i \in DOMAIN window : window[i] >= cutoff})
         IN count > pol.max_actions_per_window

IsRateLimited(pol, window, t) ==
    IF pol.max_actions_per_window <= 0 \/ pol.action_window_seconds <= 0
    THEN FALSE
    ELSE LET cutoff == t - pol.action_window_seconds
             count == Cardinality({i \in DOMAIN window : window[i] >= cutoff})
         IN count >= pol.max_actions_per_window

\* agent_defence.cpp 282-290: push the current time, then erase the entries
\* before the cutoff.
RecordActionTimestampNoTrim(pol, window, t) == Append(window, t)

RecordActionTimestamp(pol, window, t) ==
    LET cutoff == t - pol.action_window_seconds
    IN SelectSeq(Append(window, t), LAMBDA entry : ~(entry < cutoff))

\* agent_defence.cpp 152-215
EvaluateSignalThresholdLast(pol, window, t, signal) ==
    LET finding == [detection_id |-> DetectionId(signal.name),
                    rule_id |-> signal.rule_id,
                    confidence |-> signal.confidence,
                    process_id |-> signal.process_id,
                    file_path |-> signal.file_path,
                    proposed_response |-> signal.requested_response,
                    decision_reason |-> ""]
        ObserveOnly(reason) ==
            [finding EXCEPT !.proposed_response = "ObserveOnly", !.decision_reason = reason]
    IN IF finding.rule_id = "" THEN ObserveOnly("missing rule identifier")
       ELSE IF ~signal.response_defined THEN ObserveOnly("response undefined")
       ELSE IF finding.proposed_response = "ObserveOnly"
            THEN [finding EXCEPT !.decision_reason = "rule observe-only"]
       ELSE IF RequiresProcessId(finding.proposed_response) /\ finding.process_id = ""
            THEN ObserveOnly("missing process identifier")
       ELSE IF RequiresFilePath(finding.proposed_response) /\ finding.file_path = ""
            THEN ObserveOnly("missing file path")
       ELSE IF signal.confidence < pol.min_confidence_threshold
            THEN ObserveOnly("confidence below threshold")
       ELSE IF pol.mode = "observe" THEN ObserveOnly("policy observe-only")
       ELSE IF IsRateLimited(pol, window, t) THEN ObserveOnly("rate limited")
       ELSE [finding EXCEPT !.decision_reason = "action permitted"]

EvaluateSignal(pol, window, t, signal) ==
    LET finding == [detection_id |-> DetectionId(signal.name),
                    rule_id |-> signal.rule_id,
                    confidence |-> signal.confidence,
                    process_id |-> signal.process_id,
                    file_path |-> signal.file_path,
                    proposed_response |-> signal.requested_response,
                    decision_reason |-> ""]
        ObserveOnly(reason) ==
            [finding EXCEPT !.proposed_response = "ObserveOnly", !.decision_reason = reason]
    IN IF finding.rule_id = "" THEN ObserveOnly("missing rule identifier")
       ELSE IF ~signal.response_defined THEN ObserveOnly("response undefined")
       ELSE IF signal.confidence < pol.min_confidence_threshold
            THEN ObserveOnly("confidence below threshold")
       ELSE IF finding.proposed_response = "ObserveOnly"
            THEN [finding EXCEPT !.decision_reason = "rule observe-only"]
       ELSE IF RequiresProcessId(finding.proposed_response) /\ finding.process_id = ""
            THEN ObserveOnly("missing process identifier")
       ELSE IF RequiresFilePath(finding.proposed_response) /\ finding.file_path = ""
            THEN ObserveOnly("missing file path")
       ELSE IF pol.mode = "observe" THEN ObserveOnly("policy observe-only")
       ELSE IF IsRateLimited(pol, window, t) THEN ObserveOnly("rate limited")
       ELSE [finding EXCEPT !.decision_reason = "action permitted"]

\* agent_defence.cpp 165-207: whether EvaluateSignal gets as far as the call
\* of IsRateLimited.
ReachesRateCheck(pol, signal) ==
    /\ signal.rule_id # ""
    /\ signal.response_defined
    /\ ~(signal.confidence < pol.min_confidence_threshold)
    /\ signal.requested_response # "ObserveOnly"
    /\ ~(RequiresProcessId(signal.requested_response) /\ signal.process_id = "")
    /\ ~(RequiresFilePath(signal.requested_response) /\ signal.file_path = "")
    /\ pol.mode # "observe"

\* agent_defence.cpp 217-238: the evidence returned, the action window
\* afterwards, and whether RecordActionTimestamp was called.
ApplyResponseAlwaysRecords(pol, window, t, finding) ==
    LET permitted == IsResponseAllowed(pol, finding.proposed_response)
        recorded == finding.proposed_response # "ObserveOnly"
    IN [evidence |->
            [finding_id |-> finding.detection_id,
             action |-> IF permitted THEN finding.proposed_response ELSE "ObserveOnly",
             permitted_by_policy |-> permitted,
             decision_reason |-> IF permitted THEN finding.decision_reason
                                 ELSE "action blocked by policy"],
        recorded |-> recorded,
        window |-> IF recorded THEN RecordActionTimestamp(pol, window, t) ELSE window]

ApplyResponse(pol, window, t, finding) ==
    LET permitted == IsResponseAllowed(pol, finding.proposed_response)
        recorded == finding.proposed_response # "ObserveOnly" /\ permitted
    IN [evidence |->
            [finding_id |-> finding.detection_id,
             action |-> IF permitted THEN finding.proposed_response ELSE "ObserveOnly",
             permitted_by_policy |-> permitted,
             decision_reason |-> IF permitted THEN finding.decision_reason
                                 ELSE "action blocked by policy"],
        recorded |-> recorded,
        window |-> IF recorded THEN RecordActionTimestamp(pol, window, t) ELSE window]

\* The policies tried: both modes, every max_actions_per_window up to
\* MaxActions, a zero and a positive action_window_seconds, and three
\* settings of the allow-bits (kill, quarantine, block, prevent).
AllowBitSettings ==
    { <<TRUE, TRUE, TRUE, TRUE>>, <<TRUE, FALSE, FALSE, TRUE>>,
      <<FALSE, FALSE, FALSE, FALSE>> }

DefencePolicies ==
    { [mode |-> m, min_confidence_threshold |-> 1, max_actions_per_window |-> n,
       action_window_seconds |-> w, allow_kill_process |-> b[1],
       allow_quarantine_file |-> b[2], allow_block_network |-> b[3],
       allow_prevent_execution |-> b[4]] :
         m \in {"observe", "enforce"}, n \in 0..MaxActions, w \in {0, WindowSeconds},
         b \in AllowBitSettings }

\* The behaviour signals tried when EvaluateSignal is examined on its own;
\* confidence 0, 1, 2 is below, at and above the threshold of the policies.
Signals ==
    [name : {"sig"}, rule_id : {"", "r1"}, process_id : {"", "p1"},
     file_path : {"", "f1"}, confidence : 0..2, response_defined : BOOLEAN,
     requested_response : ResponseActions]

\* The behaviour signals tried in sequences of calls: well-formed signals of
\* one rule, below or at the confidence threshold, asking for any response.
SequenceSignals ==
    [name : {"sig"}, rule_id : {"r1"}, process_id : {"p1"}, file_path : {"f1"},
     confidence : 0..1, response_defined : {TRUE},
     requested_response : ResponseActions]

DefenceInit ==
    /\ JobIdle
    /\ RetryIdle
    /\ HeartbeatIdle
    /\ WatchdogIdle
    /\ EvidenceIdle
    /\ IpcIdle
    /\ WatchdogThreadsIdle
    /\ ConfigIdle
    /\ PostIdle
    /\ SigningIdle
    /\ LauncherIdle
    /\ PipeNameIdle
    /\ policy \in DefencePolicies
    /\ action_timestamps = <<>>
    /\ def_now = 0
    /\ findings = <<>>
    /\ def_last = NoDefenceCall
    /\ actions_taken = <<>>

\* A caller evaluates a signal.  A finding that proposes an action is held
\* by the caller until it is applied.
DefenceEvaluate ==
    /\ \E signal \in SequenceSignals :
         LET finding == EvaluateSignal(policy, action_timestamps, def_now, signal) IN
           /\ finding.proposed_response # "ObserveOnly" => Len(findings) < MaxPending
           /\ findings' = IF finding.proposed_response # "ObserveOnly"
                          THEN Append(findings, finding) ELSE findings
           /\ def_last' = [op |-> "evaluate", signal |-> signal, finding |-> finding,
                           evidence |-> NoEvidence, before |-> action_timestamps,
                           checked |-> ReachesRateCheck(policy, signal),
                           recorded |-> FALSE, at |-> def_now]
    /\ UNCHANGED <<policy, action_timestamps, def_now, actions_taken, outsideDefence>>

\* The effect of one ApplyResponse call on the module and on the record of
\* the latest call.
DefenceApplied(finding) ==
    LET r == ApplyResponse(policy, action_timestamps, def_now, finding) IN
      /\ r.recorded => Len(actions_taken) < MaxTaken
      /\ action_timestamps' = r.window
      /\ actions_taken' = IF r.evidence.action # "ObserveOnly"
                          THEN Append(actions_taken, def_now) ELSE actions_taken
      /\ def_last' = [op |-> "apply", signal |-> NoSignal, finding |-> finding,
                      evidence |-> r.evidence, before |-> action_timestamps,
                      checked |-> FALSE, recorded |-> r.recorded, at |-> def_now]

\* A caller applies a finding it holds.
DefenceApplyHeld ==
    /\ \E i \in DOMAIN findings :
         /\ DefenceApplied(findings[i])
         /\ findings' = SubSeq(findings, 1, i - 1) \o SubSeq(findings, i + 1, Len(findings))
    /\ UNCHANGED <<policy, def_now, outsideDefence>>

\* A caller applies the ObserveOnly finding it has just been given.
DefenceApplyObserveOnly ==
    /\ def_last.op = "evaluate"
    /\ def_last.finding.proposed_response = "ObserveOnly"
    /\ DefenceApplied(def_last.finding)
    /\ UNCHANGED <<policy, def_now, findings, outsideDefence>>

\* std::chrono::system_clock advances by one second; def_last describes the
\* latest call made at the current clock reading.
DefenceTick ==
    /\ def_now < DefHorizon
    /\ def_now' = def_now + 1
    /\ def_last' = NoDefenceCall
    /\ UNCHANGED <<policy, action_timestamps, findings, actions_taken, outsideDefence>>

DefenceNext ==
    \/ DefenceEvaluate
    \/ DefenceApplyHeld
    \/ DefenceApplyObserveOnly
    \/ DefenceTick

SpecDefence == DefenceInit /\ [][DefenceNext]_vars

\* ------------------------------------------- EvaluateSignal on its own
NonDecreasing(w) == \A i \in 1..(Len(w) - 1) : w[i] <= w[i + 1]

\* The action windows a module with policy pol can hold at time t: empty
\* when no action can be permitted, else times up to t in the order they
\* were pushed, none older than the cutoff of the latest push.
ActionWindows(pol, t) ==
    IF \A a \in ResponseActions \ {"ObserveOnly"} : ~IsResponseAllowed(pol, a)
    THEN {<<>>}
    ELSE { w \in UNION {[1..n -> 0..t] : n \in 0..MaxTaken} :
             /\ NonDecreasing(w)
             /\ \A i \in DOMAIN w : w[i] >= w[Len(w)] - pol.action_window_seconds }

EvaluateInit ==
    /\ JobIdle
    /\ RetryIdle
    /\ HeartbeatIdle
    /\ WatchdogIdle
    /\ EvidenceIdle
    /\ IpcIdle
    /\ WatchdogThreadsIdle
    /\ ConfigIdle
    /\ PostIdle
    /\ SigningIdle
    /\ LauncherIdle
    /\ PipeNameIdle
    /\ policy \in DefencePolicies
    /\ def_now \in 0..DefHorizon
    /\ action_timestamps \in ActionWindows(policy, def_now)
    /\ actions_taken = action_timestamps
    /\ findings = <<>>
    /\ def_last = NoDefenceCall

\* One EvaluateSignal call on a module in a drawn state; the caller drops
\* the finding.
EvaluateOnce ==
    /\ def_last.op = "none"
    /\ \E signal \in Signals :
         def_last' = [op |-> "evaluate", signal |-> signal,
                      finding |-> EvaluateSignal(policy, action_timestamps, def_now, signal),
                      evidence |-> NoEvidence, before |-> action_timestamps,
                      checked |-> ReachesRateCheck(policy, signal),
                      recorded |-> FALSE, at |-> def_now]
    /\ UNCHANGED <<policy, action_timestamps, def_now, findings, actions_taken,
                   outsideDefence>>

EvaluateNext == EvaluateOnce

SpecEvaluate == EvaluateInit /\ [][EvaluateNext]_vars

\* ------------------------------------------------- claims on the defence module
\* The allow-bit of an action in a policy; ObserveOnly needs none.
AllowBit(pol, action) ==
    CASE action = "KillProcess" -> pol.allow_kill_process
      [] action = "QuarantineFile" -> pol.allow_quarantine_file
      [] action = "BlockNetwork" -> pol.allow_block_network
      [] action = "PreventExecution" -> pol.allow_prevent_execution
      [] OTHER -> TRUE

\* The number of entries of a sequence of times that lie in [from, to].
CountWithin(times, from, to) ==
    Cardinality({i \in DOMAIN times : times[i] >= from /\ times[i] <= to})

\* The module's rate limit is in force at time t: limiting is configured and
\* the window holds max_actions_per_window entries or more at or after the
\* cutoff.
WindowFull(pol, window, t) ==
    /\ pol.max_actions_per_window > 0
    /\ pol.action_window_seconds > 0
    /\ CountWithin(window, t - pol.action_window_seconds, t) >= pol.max_actions_per_window

\* C14: in any span of action_window_seconds the number of non-ObserveOnly
\* actions taken by the module is at most max_actions_per_window.
C14_ActionsPerWindowWithinLimit ==
    \A i \in DOMAIN actions_taken :
        CountWithin(actions_taken, actions_taken[i],
                    actions_taken[i] + policy.action_window_seconds - 1)
            <= policy.max_actions_per_window

\* The rules of the evaluation in the order stated for C15; the result is
\* the pair of proposed response and decision reason.
RulesAsStated(pol, limited, signal) ==
    IF signal.rule_id = "" THEN <<"ObserveOnly", "missing rule identifier">>
    ELSE IF ~signal.response_defined THEN <<"ObserveOnly", "response undefined">>
    ELSE IF signal.confidence < pol.min_confidence_threshold
         THEN <<"ObserveOnly", "confidence below threshold">>
    ELSE IF signal.requested_response \in {"KillProcess", "BlockNetwork"}
            /\ signal.process_id = ""
         THEN <<"ObserveOnly", "missing process identifier">>
    ELSE IF signal.requested_response \in {"QuarantineFile", "PreventExecution"}
            /\ signal.file_path = ""
         THEN <<"ObserveOnly", "missing file path">>
    ELSE IF pol.mode = "observe" THEN <<"ObserveOnly", "policy observe-only">>
    ELSE IF limited THEN <<"ObserveOnly", "rate limited">>
    ELSE <<signal.requested_response, "action permitted">>

\* The same rules with the rule `rule observe-only` after the confidence
\* rule: a signal whose requested response is ObserveOnly.
RulesWithRuleObserveOnly(pol, limited, signal) ==
    IF /\ signal.rule_id # ""
       /\ signal.response_defined
       /\ ~(signal.confidence < pol.min_confidence_threshold)
       /\ signal.requested_response = "ObserveOnly"
    THEN <<"ObserveOnly", "rule observe-only">>
    ELSE RulesAsStated(pol, limited, signal)

EvaluatedPair == <<def_last.finding.proposed_response, def_last.finding.decision_reason>>

\* C15 as stated: EvaluateSignal returns the outcome of the first rule that
\* fires in the order missing rule identifier, response undefined,
\* confidence below threshold, missing process identifier, missing file
\* path, policy observe-only, rate limited; else the requested response
\* with reason `action permitted`.
C15_FirstFiringRuleAsStated ==
    def_last.op = "evaluate" =>
        EvaluatedPair = RulesAsStated(policy, WindowFull(policy, def_last.before, def_last.at),
                                      def_last.signal)

\* C15 amended: as stated, except that a signal that passes the first three
\* rules and requests ObserveOnly gets ObserveOnly with reason
\* `rule observe-only`, whatever the policy mode and the action window.
C15_FirstFiringRule ==
    def_last.op = "evaluate" =>
        EvaluatedPair = RulesWithRuleObserveOnly(policy,
                            WindowFull(policy, def_last.before, def_last.at),
                            def_last.signal)

\* a rule-level ObserveOnly request evaluated under an observe-mode policy
C15_Witness ==
    /\ def_last.op = "evaluate"
    /\ def_last.signal.requested_response = "ObserveOnly"
    /\ policy.mode = "observe"
    /\ def_last.finding.decision_reason = "rule observe-only"

\* C16 as stated: a finding that proposes an action was evaluated in enforce
\* mode with the action's allow-bit set and with the rate limit not in force.
C16_ProposedActionAllowedAndNotLimited ==
    (def_last.op = "evaluate" /\ def_last.finding.proposed_response # "ObserveOnly") =>
        /\ policy.mode = "enforce"
        /\ AllowBit(policy, def_last.finding.proposed_response)
        /\ ~WindowFull(policy, def_last.before, def_last.at)

\* C16 amended: a finding that proposes an action was evaluated in enforce
\* mode with the rate limit not in force; the allow-bit is not examined by
\* EvaluateSignal.
C16_ProposedActionEnforcedAndNotLimited ==
    (def_last.op = "evaluate" /\ def_last.finding.proposed_response # "ObserveOnly") =>
        /\ policy.mode = "enforce"
        /\ ~WindowFull(policy, def_last.before, def_last.at)

\* an action is proposed while the window already holds an action
C16_Witness ==
    /\ def_last.op = "evaluate"
    /\ def_last.finding.proposed_response = "KillProcess"
    /\ def_last.finding.decision_reason = "action permitted"
    /\ Len(def_last.before) > 0

\* The window after the time t has been pushed into window w and the
\* entries before the cutoff have been dropped.
PushedAndTrimmed(pol, w, t) ==
    SelectSeq(w, LAMBDA e : e >= t - pol.action_window_seconds) \o <<t>>

AllEntriesSinceCutoff ==
    \A i \in DOMAIN action_timestamps :
        action_timestamps[i] >= def_last.at - policy.action_window_seconds

\* C18 as stated: after every record and after every check of the action
\* window, every timestamp held is >= now - action_window_seconds.
C18_WindowTrimmedOnEveryUse ==
    \/ def_last.op = "apply" /\ def_last.recorded
    \/ def_last.op = "evaluate" /\ def_last.checked
    => AllEntriesSinceCutoff

\* C18 amended: after every record every timestamp held is
\* >= now - action_window_seconds and the window holds exactly the actions
\* taken since that cutoff; a check leaves the window as it was.
C18_WindowTrimmedOnRecord ==
    /\ (def_last.op = "apply" /\ def_last.recorded) =>
          /\ AllEntriesSinceCutoff
          /\ Len(action_timestamps) =
                CountWithin(actions_taken, def_last.at - policy.action_window_seconds,
                            def_last.at)
    /\ def_last.op = "evaluate" => action_timestamps = def_last.before

\* a record has just dropped an entry that was older than the cutoff
C18_Witness ==
    /\ def_last.op = "apply"
    /\ def_last.recorded
    /\ Len(action_timestamps) <= Len(def_last.before)

\* ==================================================== heartbeat backoff
\* The range of `int`, written so that no intermediate value leaves it.
IntMax == (2^30 - 1) + 2^30
IntMin == (-IntMax) - 1

\* 2 * x in the range of int, and the value the product takes when it
\* leaves the range and the arithmetic wraps (2 * x - 2^32 or 2 * x + 2^32).
DoubleOverflows(x) == x > 2^30 - 1 \/ x < -(2^30)

DoubleWrapped(x) ==
    IF x > 2^30 - 1 THEN ((x - 2^30) - 2^30) * 2
    ELSE IF x < -(2^30) THEN ((x + 2^30) + 2^30) * 2
    ELSE x * 2

\* agent_retry.cpp 17-23: the loop from iteration i on, as the set of values
\* it can return.  `interval *= 2` outside the range of int is undefined:
\* the build either wraps the value, or has folded the comparison on the
\* assumption that a doubled positive value is not smaller and returns the
\* maximum.
RECURSIVE DoublingLoop(_, _, _, _)
DoublingLoop(interval, i, failure_count, max_interval_seconds) ==
    IF ~(i < failure_count)
    THEN {Min(interval, max_interval_seconds)}
    ELSE LET doubled == DoubleWrapped(interval)
             continued ==
                 IF doubled >= max_interval_seconds
                 THEN {max_interval_seconds}
                 ELSE DoublingLoop(doubled, i + 1, failure_count, max_interval_seconds)
         IN IF DoubleOverflows(interval) /\ interval > 0
            THEN continued \cup {max_interval_seconds}
            ELSE continued

\* agent_retry.cpp 7-24: the set of values the call can return.
ComputeHeartbeatIntervalSeconds(base_interval_seconds, failure_count, max_interval_seconds) ==
    IF base_interval_seconds <= 0 THEN {30}
    ELSE IF failure_count <= 0 THEN {base_interval_seconds}
    ELSE DoublingLoop(base_interval_seconds, 0, failure_count, max_interval_seconds)

\* The arguments tried: bases at and below zero, the default, one above the
\* caps and one whose double leaves the range of int; failure counts from
\* below zero; caps at zero, small, the default and the largest int.
RetryBases == {-1, 0, 1, 45, 500, 2^30}
RetryFailureCounts == -1..MaxFailures
RetryCaps == {0, 10, 300, IntMax}

RetryInit ==
    /\ JobIdle
    /\ DefenceIdle
    /\ HeartbeatIdle
    /\ WatchdogIdle
    /\ EvidenceIdle
    /\ IpcIdle
    /\ WatchdogThreadsIdle
    /\ ConfigIdle
    /\ PostIdle
    /\ SigningIdle
    /\ LauncherIdle
    /\ PipeNameIdle
    /\ retry_in \in [base : RetryBases, failure_count : RetryFailureCounts, cap : RetryCaps]
    /\ retry_out = <<>>

\* The function is called for failure_count and for failure_count + 1.
ComputeIntervals ==
    /\ retry_out = <<>>
    /\ \E a \in ComputeHeartbeatIntervalSeconds(retry_in.base, retry_in.failure_count,
                                                retry_in.cap),
          b \in ComputeHeartbeatIntervalSeconds(retry_in.base, retry_in.failure_count + 1,
                                                retry_in.cap) :
         retry_out' = <<a, b>>
    /\ UNCHANGED <<retry_in, outsideRetry>>

RetryNext == ComputeIntervals

SpecRetry == RetryInit /\ [][RetryNext]_vars

\* C19: the interval for failure_count + 1 is not smaller than the interval
\* for failure_count, and neither exceeds the cap.
C19_IntervalMonotoneAndCapped ==
    retry_out # <<>> =>
        /\ retry_out[1] <= retry_out[2]
        /\ retry_out[1] <= retry_in.cap
        /\ retry_out[2] <= retry_in.cap

\* ===================================================== heartbeat sender
\* The configurations the process is started with and the HTTP status codes
\* the transport answers with.
HeartbeatConfigs ==
    [tenant_id : {"", "T1", "T2"}, asset_id : {"", "A1", "A2"},
     identity_id : {"", "I1", "I2"}, shared_key : {"", ControlPlaneKey}]

StatusCodes == {200, 204, 302, 399, 400, 401, 500, 503}

HeartbeatInit ==
    /\ JobIdle
    /\ DefenceIdle
    /\ RetryIdle
    /\ WatchdogIdle
    /\ EvidenceIdle
    /\ IpcIdle
    /\ WatchdogThreadsIdle
    /\ ConfigIdle
    /\ PostIdle
    /\ SigningIdle
    /\ LauncherIdle
    /\ PipeNameIdle
    /\ \E c \in HeartbeatConfigs :
         hb = [pc |-> "start", tenant_id |-> c.tenant_id, asset_id |-> c.asset_id,
               identity_id |-> c.identity_id, shared_key |-> c.shared_key, posts |-> 0,
               post_failed |-> FALSE, status_code |-> 0, exit_code |-> 0]

\* main.cpp 92-106: load the configuration, build and sign the payload,
\* initialise curl.  Missing identifiers return 1; SignPayload throws on an
\* empty key and curl_easy_init can fail, and the handler at 142-145
\* returns 1.
HeartbeatStart ==
    /\ hb.pc = "start"
    /\ \E curl_init_ok \in BOOLEAN :
         IF hb.tenant_id = "" \/ hb.asset_id = "" \/ hb.identity_id = ""
         THEN hb' = [hb EXCEPT !.pc = "exited", !.exit_code = 1]
         ELSE IF hb.shared_key = ""
         THEN hb' = [hb EXCEPT !.pc = "exited", !.exit_code = 1]
         ELSE IF ~curl_init_ok
         THEN hb' = [hb EXCEPT !.pc = "exited", !.exit_code = 1]
         ELSE hb' = [hb EXCEPT !.pc = "post"]
    /\ UNCHANGED outsideHeartbeat

\* main.cpp 108-141: the POST to /mtls/hello and the return from main.
HeartbeatPost ==
    /\ hb.pc = "post"
    /\ \E curl_ok \in BOOLEAN, status \in StatusCodes :
         IF ~curl_ok
         THEN hb' = [hb EXCEPT !.pc = "exited", !.posts = @ + 1, !.post_failed = TRUE,
                               !.exit_code = 1]
         ELSE hb' = [hb EXCEPT !.pc = "exited", !.posts = @ + 1,
                               !.post_failed = (status >= 400),
                               !.status_code = status,
                               !.exit_code = IF status >= 400 THEN 1 ELSE 0]
    /\ UNCHANGED outsideHeartbeat

HeartbeatNext ==
    \/ HeartbeatStart
    \/ HeartbeatPost

SpecHeartbeat == HeartbeatInit /\ [][HeartbeatNext]_vars

\* C20: a failed heartbeat POST does not end the sender: after it the sender
\* is still running and goes on to another attempt.
C20_SenderSurvivesFailedPost ==
    hb.post_failed => hb.pc # "exited"

\* ------------------------------------------------------ heartbeat watchdog
\* src/agent/src/agent_watchdog.cpp.  The system clock is followed in ticks
\* of 1 / TicksPerSecond second so that the truncation in NowSeconds is part
\* of the model; Start, Stop, NotifyHeartbeat and the worker's check take no
\* clock time and the worker's sleep lasts its nominal duration.
TicksPerSecond == 2        \* clock ticks in one second
WdMaxTimeout == 3          \* largest timeout_ (seconds) the watchdog is built with
WdMaxTicks == 12           \* the watchdog's clock is followed for this many ticks

\* agent_watchdog.cpp 9-13: duration_cast<seconds> truncates.
NowSeconds(tick) == tick \div TicksPerSecond

\* agent_watchdog.cpp 42: sleep_for(timeout_ / 2) on std::chrono::seconds is
\* an integer division.  A zero sleep (timeout_ = 1) makes the worker check
\* without pause; the model lets it check once in every tick.
SleepTicks(timeout) ==
    IF timeout \div 2 = 0 THEN 1 ELSE (timeout \div 2) * TicksPerSecond

TimedOutInclusive(t_now, last_tick, timeout) == t_now - last_tick >= timeout

\* agent_watchdog.cpp 45: if (now - last_tick > timeout_.count()).
TimedOut(t_now, last_tick, timeout) == t_now - last_tick > timeout

\* agent_watchdog.cpp 16-17: the constructor stores the timeout; nothing runs.
WatchdogInit ==
    /\ JobIdle
    /\ DefenceIdle
    /\ RetryIdle
    /\ HeartbeatIdle
    /\ EvidenceIdle
    /\ IpcIdle
    /\ WatchdogThreadsIdle
    /\ ConfigIdle
    /\ PostIdle
    /\ SigningIdle
    /\ LauncherIdle
    /\ PipeNameIdle
    /\ wd_clock = 0
    /\ \E timeout \in 1..WdMaxTimeout : wd = [NoWatchdog EXCEPT !.timeout = timeout]

\* agent_watchdog.cpp 21-27: Start().  A second Start while running returns
\* at once; after Stop has joined the worker, Start runs a new one.
WdStart ==
    /\ ~wd.running
    /\ wd.worker # "sleeping"
    /\ wd' = [wd EXCEPT !.running = TRUE,
                        !.last_tick = NowSeconds(wd_clock),
                        !.worker = "sleeping",
                        !.wake = wd_clock + SleepTicks(wd.timeout),
                        !.event = wd_clock,
                        !.alerted = FALSE,
                        !.check = NoWatchdogCheck]
    /\ UNCHANGED <<wd_clock, outsideWatchdog>>

\* agent_watchdog.cpp 29-36: Stop() clears running_ and joins the worker,
\* which leaves its loop after the check that follows its current sleep.
WdStop ==
    /\ wd.running
    /\ wd' = [wd EXCEPT !.running = FALSE]
    /\ UNCHANGED <<wd_clock, outsideWatchdog>>

\* agent_watchdog.cpp 38: NotifyHeartbeat().
WdNotifyHeartbeat ==
    /\ wd.event # wd_clock
    /\ wd' = [wd EXCEPT !.last_tick = NowSeconds(wd_clock),
                        !.event = wd_clock,
                        !.alerted = FALSE]
    /\ UNCHANGED <<wd_clock, outsideWatchdog>>

\* agent_watchdog.cpp 41-48: the worker wakes, compares and writes the alert
\* to std::cerr; then the loop condition at 41 is read again.
WdCheck ==
    /\ wd.worker = "sleeping"
    /\ wd_clock = wd.wake
    /\ LET alert == TimedOut(NowSeconds(wd_clock), wd.last_tick, wd.timeout)
       IN wd' = [wd EXCEPT !.check = [valid |-> TRUE, at |-> wd_clock,
                                      event |-> wd.event, alert |-> alert],
                           !.alerted = @ \/ alert,
                           !.worker = IF wd.running THEN "sleeping" ELSE "exited",
                           !.wake = IF wd.running THEN wd_clock + SleepTicks(wd.timeout)
                                    ELSE @]
    /\ UNCHANGED <<wd_clock, outsideWatchdog>>

\* The clock advances; a worker whose sleep has ended checks first.
WdTick ==
    /\ wd_clock < WdMaxTicks
    /\ wd.worker = "sleeping" => wd_clock < wd.wake
    /\ wd_clock' = wd_clock + 1
    /\ UNCHANGED <<wd, outsideWatchdog>>

WatchdogNext ==
    \/ WdStart
    \/ WdStop
    \/ WdNotifyHeartbeat
    \/ WdCheck
    \/ WdTick

SpecWatchdog == WatchdogInit /\ [][WatchdogNext]_vars

\* Whole seconds a clock reading of `tick` ticks shows.
WholeSeconds(tick) == (tick - (tick % TicksPerSecond)) \div TicksPerSecond

\* The worker is looping and has raised no alert since the latest Start or
\* NotifyHeartbeat.
WdSilentSinceEvent == wd.running /\ wd.worker = "sleeping" /\ ~wd.alerted

\* A check raises the alert exactly when the whole-second clock reading
\* exceeds the whole-second reading of the latest Start or NotifyHeartbeat
\* by more than timeout; so an alert implies more than timeout of real time
\* since that event.
WdAlertIffOverdue ==
    wd.check.valid =>
        /\ wd.check.alert <=>
             WholeSeconds(wd.check.at) - WholeSeconds(wd.check.event) > wd.timeout
        /\ wd.check.alert => wd.check.at - wd.check.event > wd.timeout * TicksPerSecond

\* C21 (as stated): a check alerts iff now - last_tick > timeout, no alert
\* is raised while heartbeats arrive within timeout, and once heartbeats
\* stall the alert is raised within 1.5 x timeout.
C21_AlertWithinOneAndAHalfTimeouts ==
    /\ WdAlertIffOverdue
    /\ WdSilentSinceEvent => 2 * (wd_clock - wd.event) <= 3 * wd.timeout * TicksPerSecond

\* C21 (amended): a check alerts iff the whole-second clock reading exceeds
\* last_tick by more than timeout, no alert is raised while heartbeats
\* arrive within timeout, and once heartbeats stall the alert is raised at
\* most timeout + timeout / 2 (integer division) + 1 seconds after the
\* latest Start or NotifyHeartbeat.
C21_AlertWithinTimeoutPlusPeriodPlusOne ==
    /\ WdAlertIffOverdue
    /\ WdSilentSinceEvent =>
         wd_clock - wd.event <= (wd.timeout + (wd.timeout \div 2) + 1) * TicksPerSecond

\* C21 witness: a check has raised the alert after heartbeats stalled for
\* longer than 1.5 x timeout.
C21_Witness ==
    /\ wd.check.valid
    /\ wd.check.alert
    /\ 2 * (wd.check.at - wd.check.event) > 3 * wd.timeout * TicksPerSecond

\* --------------------------------------------------------- evidence broker
\* src/agent/src/core/evidence_impl.cpp.  Calls come from EvThreads; a call
\* that finds g_evidence_mutex held waits at "lock".  File-system calls made
\* while the mutex is held are steps of their own, so that other threads and
\* other processes (which change the artefact file) interleave with them.
MaxItems == 2              \* items AddEvidence stores in one run of the model

EvThreads == {"t1", "t2"}
StoragePaths == {"f1"}
StoredIds == {"e1"}                  \* evidence_id of the items that are added
CallIds == StoredIds \cup {"e0"}     \* "e0" is never added
CallerHashes == {"", "TODO: compute hash"}   \* evidence.cpp 13
FileContents == {"c1", "c2"}

NoFile == [exists |-> FALSE, readable |-> FALSE, content |-> ""]

\* A file that exists holds some content; one that is locked by another
\* process or denied to the agent exists but cannot be opened.
FileStates ==
    {NoFile} \cup [exists : {TRUE}, readable : {TRUE}, content : FileContents]
             \cup {[exists |-> TRUE, readable |-> FALSE, content |-> "c1"]}

\* SHA-256 in lowercase hex (evidence_impl.cpp 98-121), as an injective
\* function of the content.
Sha256Hex(content) ==
    CASE content = "c1" -> "sha256hex(c1)"
      [] content = "c2" -> "sha256hex(c2)"
      [] OTHER -> "sha256hex()"

\* evidence_impl.cpp 94-122.
ComputeSHA256Hex(file) ==
    IF ~(file.exists /\ file.readable) THEN "" ELSE Sha256Hex(file.content)

\* evidence_impl.cpp 131-132, 148-149: the first item with the identifier;
\* 0 when the loop ends without a match.
FindEvidence(store, evidence_id) ==
    IF \E i \in 1..Len(store) : store[i].evidence_id = evidence_id
    THEN CHOOSE i \in 1..Len(store) :
           /\ store[i].evidence_id = evidence_id
           /\ \A j \in 1..(i - 1) : store[j].evidence_id # evidence_id
    ELSE 0

StoreHashAppended(store, idx, hash) == Append(store, [store[idx] EXCEPT !.hash = hash])

\* evidence_impl.cpp 137: it.hash = ...
StoreHash(store, idx, hash) == [store EXCEPT ![idx].hash = hash]

NoPackage == [dir |-> FALSE, artefact |-> "", metadata |-> FALSE, hash |-> ""]
NoEnvelope == [state |-> "absent", hash |-> ""]
NoSeal == [sealed |-> FALSE, first |-> "", at_seal |-> NoFile]
IdleThread == [pc |-> "idle", op |-> "none", evidence_id |-> "", hash |-> ""]

EvidenceInit ==
    /\ JobIdle
    /\ DefenceIdle
    /\ RetryIdle
    /\ HeartbeatIdle
    /\ WatchdogIdle
    /\ IpcIdle
    /\ WatchdogThreadsIdle
    /\ ConfigIdle
    /\ PostIdle
    /\ SigningIdle
    /\ LauncherIdle
    /\ PipeNameIdle
    /\ evidence_store = <<>>
    /\ g_evidence_mutex = "free"
    /\ ev_threads = [t \in EvThreads |-> IdleThread]
    /\ artefacts \in [StoragePaths -> FileStates]
    /\ evidence_packages = [id \in StoredIds |-> NoPackage]
    /\ uplink_queue = [id \in StoredIds |-> NoEnvelope]
    /\ ev_last = NoEvidenceCall
    /\ ev_seals = <<>>

\* std::lock_guard at 125, 130, 147, 207: the constructor returns when the
\* mutex is free; a thread that called while it was held waits.
Entering(t, op, evidence_id, hash) ==
    /\ g_evidence_mutex = "free"
    /\ \/ ev_threads[t] = IdleThread
       \/ ev_threads[t] =
            [pc |-> "lock", op |-> op, evidence_id |-> evidence_id, hash |-> hash]

EvCallBlocked(t, op, evidence_id, hash) ==
    /\ ev_threads[t] = IdleThread
    /\ g_evidence_mutex # "free"
    /\ op = "add" => evidence_id \in StoredIds /\ Len(evidence_store) < MaxItems
    /\ op # "add" => hash = ""
    /\ op = "list" => evidence_id = ""
    /\ op # "list" => evidence_id # ""
    /\ ev_threads' = [ev_threads EXCEPT ![t] =
         [pc |-> "lock", op |-> op, evidence_id |-> evidence_id, hash |-> hash]]
    /\ UNCHANGED <<evidence_store, g_evidence_mutex, artefacts, evidence_packages,
                   uplink_queue, ev_last, ev_seals, outsideEvidence>>

\* The call, the message it wrote (none while it runs) and what it returned.
Completed(op, evidence_id, out, ret) ==
    [op |-> op, evidence_id |-> evidence_id, out |-> out, ret |-> ret]

\* evidence_impl.cpp 124-127: AddEvidence.
EvAddEvidence(t, item) ==
    /\ Entering(t, "add", item.evidence_id, item.hash)
    /\ Len(evidence_store) < MaxItems
    /\ evidence_store' = Append(evidence_store, item)
    /\ ev_seals' = Append(ev_seals, NoSeal)
    /\ ev_threads' = [ev_threads EXCEPT ![t] = IdleThread]
    /\ ev_last' = Completed("add", item.evidence_id, "", <<>>)
    /\ UNCHANGED <<g_evidence_mutex, artefacts, evidence_packages, uplink_queue,
                   outsideEvidence>>

\* evidence_impl.cpp 206-209: ListEvidence returns a copy of the store.
EvListEvidence(t) ==
    /\ Entering(t, "list", "", "")
    /\ ev_threads' = [ev_threads EXCEPT ![t] = IdleThread]
    /\ ev_last' = Completed("list", "", "", evidence_store)
    /\ UNCHANGED <<evidence_store, g_evidence_mutex, artefacts, evidence_packages,
                   uplink_queue, ev_seals, outsideEvidence>>

\* evidence_impl.cpp 129-136, 143: SealEvidence takes the mutex, finds the
\* item and asks fs::exists.
EvSealEnter(t, evidence_id) ==
    /\ Entering(t, "seal", evidence_id, "")
    /\ LET idx == FindEvidence(evidence_store, evidence_id)
       IN IF idx = 0
          THEN /\ ev_threads' = [ev_threads EXCEPT ![t] = IdleThread]
               /\ ev_last' = Completed("seal", evidence_id, "SealEvidence: id not found", <<>>)
               /\ UNCHANGED g_evidence_mutex
          ELSE IF ~artefacts[evidence_store[idx].storage_path].exists
          THEN /\ ev_threads' = [ev_threads EXCEPT ![t] = IdleThread]
               /\ ev_last' = Completed("seal", evidence_id, "Evidence file missing", <<>>)
               /\ UNCHANGED g_evidence_mutex
          ELSE /\ ev_threads' = [ev_threads EXCEPT ![t] =
                    [pc |-> "seal_hash", op |-> "seal", evidence_id |-> evidence_id,
                     hash |-> ""]]
               /\ g_evidence_mutex' = t
               /\ ev_last' = Completed("seal", evidence_id, "", <<>>)
    /\ UNCHANGED <<evidence_store, artefacts, evidence_packages, uplink_queue, ev_seals,
                   outsideEvidence>>

\* evidence_impl.cpp 137-140: the file is opened and hashed, the result is
\* stored whatever it is, and the guard's destructor releases the mutex.
EvSealHash(t) ==
    /\ ev_threads[t].pc = "seal_hash"
    /\ LET idx == FindEvidence(evidence_store, ev_threads[t].evidence_id)
           file == artefacts[evidence_store[idx].storage_path]
           hash == ComputeSHA256Hex(file)
       IN /\ evidence_store' = StoreHash(evidence_store, idx, hash)
          /\ ev_seals' = [ev_seals EXCEPT ![idx] =
               [sealed |-> TRUE, first |-> IF @.sealed THEN @.first ELSE hash,
                at_seal |-> file]]
    /\ ev_threads' = [ev_threads EXCEPT ![t] = IdleThread]
    /\ g_evidence_mutex' = "free"
    /\ ev_last' = Completed("seal", ev_threads[t].evidence_id, "Sealed evidence", <<>>)
    /\ UNCHANGED <<artefacts, evidence_packages, uplink_queue, outsideEvidence>>

\* evidence_impl.cpp 146-149, 203: UploadEvidence takes the mutex and finds
\* the item.
EvUploadEnter(t, evidence_id) ==
    /\ Entering(t, "upload", evidence_id, "")
    /\ IF FindEvidence(evidence_store, evidence_id) = 0
       THEN /\ ev_threads' = [ev_threads EXCEPT ![t] = IdleThread]
            /\ ev_last' = Completed("upload", evidence_id, "UploadEvidence: id not found", <<>>)
            /\ UNCHANGED g_evidence_mutex
       ELSE /\ ev_threads' = [ev_threads EXCEPT ![t] =
                 [pc |-> "upload_package", op |-> "upload", evidence_id |-> evidence_id,
                  hash |-> ""]]
            /\ g_evidence_mutex' = t
            /\ ev_last' = Completed("upload", evidence_id, "", <<>>)
    /\ UNCHANGED <<evidence_store, artefacts, evidence_packages, uplink_queue, ev_seals,
                   outsideEvidence>>

\* evidence_impl.cpp 150-174 and 59-73: LoadConfig, create_directories,
\* copy_file when the artefact exists (it throws when the file cannot be
\* read, and the handler returns), metadata.txt; then EnqueueUplinkEvidence
\* refuses an empty hash or opens the envelope under its final name, which
\* creates or truncates it.
EvUploadPackage(t) ==
    /\ ev_threads[t].pc = "upload_package"
    /\ LET id == ev_threads[t].evidence_id
           it == evidence_store[FindEvidence(evidence_store, id)]
           file == artefacts[it.storage_path]
           packaged == [dir |-> TRUE,
                        artefact |-> IF file.exists THEN file.content
                                     ELSE evidence_packages[id].artefact,
                        metadata |-> TRUE, hash |-> it.hash]
       IN IF file.exists /\ ~file.readable
          THEN /\ evidence_packages' = [evidence_packages EXCEPT ![id].dir = TRUE]
               /\ ev_threads' = [ev_threads EXCEPT ![t] = IdleThread]
               /\ g_evidence_mutex' = "free"
               /\ ev_last' = Completed("upload", id, "UploadEvidence packaging failed", <<>>)
               /\ UNCHANGED uplink_queue
          ELSE IF it.hash = ""
          THEN /\ evidence_packages' = [evidence_packages EXCEPT ![id] = packaged]
               /\ ev_threads' = [ev_threads EXCEPT ![t] = IdleThread]
               /\ g_evidence_mutex' = "free"
               /\ ev_last' = Completed("upload", id, "Evidence uplink queue failed", <<>>)
               /\ UNCHANGED uplink_queue
          ELSE /\ evidence_packages' = [evidence_packages EXCEPT ![id] = packaged]
               /\ uplink_queue' = [uplink_queue EXCEPT ![id] =
                    [state |-> "empty", hash |-> ""]]
               /\ ev_threads' = [ev_threads EXCEPT ![t].pc = "enqueue_write"]
               /\ UNCHANGED <<g_evidence_mutex, ev_last>>
    /\ UNCHANGED <<evidence_store, artefacts, ev_seals, outsideEvidence>>

\* evidence_impl.cpp 75-90 and 195-203: the JSON text is built, written and
\* the file closed; UploadEvidence reports and releases the mutex.
EvEnqueueWrite(t) ==
    /\ ev_threads[t].pc = "enqueue_write"
    /\ LET id == ev_threads[t].evidence_id
           it == evidence_store[FindEvidence(evidence_store, id)]
       IN /\ uplink_queue' = [uplink_queue EXCEPT ![id] =
               [state |-> "complete", hash |-> it.hash]]
          /\ ev_last' = Completed("upload", id, "Evidence package queued for uplink", <<>>)
    /\ ev_threads' = [ev_threads EXCEPT ![t] = IdleThread]
    /\ g_evidence_mutex' = "free"
    /\ UNCHANGED <<evidence_store, artefacts, evidence_packages, ev_seals, outsideEvidence>>

\* Another process writes, replaces, locks or removes the artefact file.
EnvChangeArtefact(path, file) ==
    /\ artefacts[path] # file
    /\ artefacts' = [artefacts EXCEPT ![path] = file]
    /\ UNCHANGED <<evidence_store, g_evidence_mutex, ev_threads, evidence_packages,
                   uplink_queue, ev_last, ev_seals, outsideEvidence>>

EvidenceItems ==
    [evidence_id : StoredIds, hash : CallerHashes, storage_path : StoragePaths]

EvidenceNext ==
    \/ \E t \in EvThreads, op \in {"add", "list"},
          evidence_id \in StoredIds \cup {""}, hash \in CallerHashes :
         EvCallBlocked(t, op, evidence_id, hash)
    \/ \E t \in EvThreads, item \in EvidenceItems : EvAddEvidence(t, item)
    \/ \E t \in EvThreads : EvListEvidence(t)
    \/ \E t \in EvThreads, evidence_id \in CallIds : EvSealEnter(t, evidence_id)
    \/ \E t \in EvThreads : EvSealHash(t)
    \/ \E t \in EvThreads, evidence_id \in CallIds : EvUploadEnter(t, evidence_id)
    \/ \E t \in EvThreads : EvUploadPackage(t)
    \/ \E t \in EvThreads : EvEnqueueWrite(t)
    \/ \E path \in StoragePaths, file \in FileStates : EnvChangeArtefact(path, file)

SpecEvidence == EvidenceInit /\ [][EvidenceNext]_vars

\* The items SealEvidence has hashed and reported as sealed.
SealedItems == {i \in 1..Len(evidence_store) : ev_seals[i].sealed}

\* C22: for every item SealEvidence has sealed, the stored hash is the
\* SHA-256 hex text of the content the file at storage_path had when it was
\* sealed.
C22_SealedHashIsShaOfFile ==
    \A i \in SealedItems :
        /\ ev_seals[i].at_seal.exists
        /\ evidence_store[i].hash = Sha256Hex(ev_seals[i].at_seal.content)

\* C23: a package directory or a spool envelope exists for an evidence_id
\* only if an item with that identifier has been sealed.
C23_OnlySealedItemsArePackaged ==
    \A id \in StoredIds :
        (evidence_packages[id].dir \/ uplink_queue[id].state # "absent") =>
            \E i \in SealedItems : evidence_store[i].evidence_id = id

\* C24: a sealed item keeps the hash of its first seal whatever SealEvidence
\* calls and file changes follow.
C24_SecondSealKeepsHash ==
    \A i \in SealedItems : evidence_store[i].hash = ev_seals[i].first

UnchangedStoreMessages ==
    {"Evidence file missing", "SealEvidence: id not found", "UploadEvidence: id not found"}

\* C25: a SealEvidence that finds the artefact file missing, and a
\* SealEvidence or UploadEvidence with an unknown evidence_id, leave every
\* stored item, every seal, every package and the spool as they were; the
\* number of stored items changes only by AddEvidence appending one item;
\* ListEvidence returns the whole store.
C25_MissingAndUnknownLeaveStore ==
    [][/\ ev_last'.out \in UnchangedStoreMessages =>
            /\ evidence_store' = evidence_store
            /\ ev_seals' = ev_seals
            /\ evidence_packages' = evidence_packages
            /\ uplink_queue' = uplink_queue
       /\ Len(evidence_store') # Len(evidence_store) =>
            /\ ev_last'.op = "add"
            /\ Len(evidence_store') = Len(evidence_store) + 1
            /\ SubSeq(evidence_store', 1, Len(evidence_store)) = evidence_store
       /\ ev_last'.op = "list" => ev_last'.ret = evidence_store']_vars

\* C25 witness: SealEvidence found the artefact of a stored item missing.
C25_Witness ==
    /\ ev_last.op = "seal"
    /\ ev_last.out = "Evidence file missing"
    /\ FindEvidence(evidence_store, ev_last.evidence_id) # 0
    /\ ~ev_seals[FindEvidence(evidence_store, ev_last.evidence_id)].sealed

\* The steps that read or write files.
FileIoSteps == {"seal_hash", "upload_package", "enqueue_write"}

\* C26: no thread is at a file I/O step while it holds g_evidence_mutex.
C26_NoFileIoUnderMutex ==
    \A t \in EvThreads : g_evidence_mutex = t => ev_threads[t].pc \notin FileIoSteps

\* C27: no envelope file in the uplink queue directory is ever empty or
\* partially written.
C27_EnvelopeNeverEmpty ==
    \A id \in StoredIds : uplink_queue[id].state # "empty"

\* ------------------------------------------------------------------- IPC
\* src/agent/ipc/named_pipe_ipc.cpp and the receive loop of
\* src/agent/src/core/main.cpp.  The pipe is a byte stream (PIPE_TYPE_BYTE,
\* named_pipe_ipc.cpp 34): one ReadFile returns at least one and at most the
\* requested number of the bytes that have arrived.
MaxClients == 2            \* clients that connect in one run of the model
MaxSent == 2               \* messages one client writes

MAX_MSG_SIZE == 16777216    \* 16 * 1024 * 1024 bytes

\* The payloads clients send and the frame header of a foreign client that
\* announces 32 MiB.
IpcMessages == {<<>>, <<1>>, <<2, 1>>}
OversizedHeader == <<0, 0, 0, 2>>

\* named_pipe_ipc.cpp 197, 204: the 32-bit size in memory order
\* (little-endian on the agent's platforms).
SizeBytes(size) ==
    <<size % 256, (size \div 256) % 256, (size \div 65536) % 256, size \div 16777216>>

\* named_pipe_ipc.cpp 63-64: ReadFile stores the bytes it returns at the
\* start of `size`, which was initialised to 0.
SizeFromBytes(bytes) ==
    LET b(i) == IF i <= Len(bytes) THEN bytes[i] ELSE 0
    IN b(1) + 256 * b(2) + 65536 * b(3) + 16777216 * b(4)

\* named_pipe_ipc.cpp 194-223: the bytes a successful WriteMessage puts on
\* the pipe.
Frame(msg) == SizeBytes(Len(msg)) \o msg

Drop(s, k) == SubSeq(s, k + 1, Len(s))

IpcInit ==
    /\ JobIdle
    /\ DefenceIdle
    /\ RetryIdle
    /\ HeartbeatIdle
    /\ WatchdogIdle
    /\ EvidenceIdle
    /\ WatchdogThreadsIdle
    /\ ConfigIdle
    /\ PostIdle
    /\ SigningIdle
    /\ LauncherIdle
    /\ PipeNameIdle
    /\ pipe = <<>>
    /\ ipc_srv = [NoServer EXCEPT !.pc = "start"]
    /\ ipc_cli = NoClient
    /\ ipc_call = NoIpcCall

\* main.cpp 92-93 after a break, 57 and 63 before the loop.
Exited(code) == [ipc_srv EXCEPT !.pc = "exited", !.exit_code = code]

\* named_pipe_ipc.cpp 24-42 as called from main.cpp 54-58 and 77-81:
\* CreateNamedPipeW gives a new pipe instance or fails.
SrvStart ==
    /\ ipc_srv.pc = "start"
    /\ \E created \in BOOLEAN :
         IF created
         THEN ipc_srv' = [ipc_srv EXCEPT !.pc = "wait"]
         ELSE ipc_srv' = Exited(IF ipc_srv.recovering THEN 0 ELSE 1)
    /\ UNCHANGED <<pipe, ipc_cli, ipc_call, outsideIpc>>

\* named_pipe_ipc.cpp 138-160: Connect succeeds once an instance exists.
CliConnect ==
    /\ ipc_srv.pc = "wait"
    /\ ~ipc_cli.connected
    /\ ~ipc_cli.gone
    /\ ipc_cli.n < MaxClients
    /\ ipc_cli' = [ipc_cli EXCEPT !.connected = TRUE, !.n = @ + 1]
    /\ UNCHANGED <<pipe, ipc_srv, ipc_call, outsideIpc>>

\* named_pipe_ipc.cpp 194-223: the client's WriteMessage.
CliWriteMessage(msg) ==
    /\ ipc_cli.connected
    /\ ~ipc_cli.foreign
    /\ Len(ipc_cli.sent) < MaxSent
    /\ Len(msg) <= MAX_MSG_SIZE
    /\ pipe' = pipe \o Frame(msg)
    /\ ipc_cli' = [ipc_cli EXCEPT !.sent = Append(@, msg)]
    /\ UNCHANGED <<ipc_srv, ipc_call, outsideIpc>>

\* named_pipe_ipc.cpp 205-221: the client ends between two WriteFile calls;
\* the header and `sent_bytes` bytes of the payload are on the pipe.
CliWriteTruncated(msg, sent_bytes) ==
    /\ ipc_cli.connected
    /\ ~ipc_cli.foreign
    /\ Len(ipc_cli.sent) < MaxSent
    /\ sent_bytes < Len(msg)
    /\ pipe' = pipe \o SizeBytes(Len(msg)) \o SubSeq(msg, 1, sent_bytes)
    /\ ipc_cli' = [ipc_cli EXCEPT !.connected = FALSE, !.gone = TRUE, !.foreign = TRUE]
    /\ UNCHANGED <<ipc_srv, ipc_call, outsideIpc>>

\* A client that does not use NamedPipeClient writes a header above the
\* limit (the case of named_pipe_ipc.cpp 74-77).
CliWriteOversized ==
    /\ ipc_cli.connected
    /\ ~ipc_cli.foreign
    /\ pipe' = pipe \o OversizedHeader
    /\ ipc_cli' = [ipc_cli EXCEPT !.foreign = TRUE]
    /\ UNCHANGED <<ipc_srv, ipc_call, outsideIpc>>

\* named_pipe_ipc.cpp 225-230: the client closes its handle; bytes already
\* written stay readable.
CliClose ==
    /\ ipc_cli.connected
    /\ ipc_cli' = [ipc_cli EXCEPT !.connected = FALSE, !.gone = TRUE]
    /\ UNCHANGED <<pipe, ipc_srv, ipc_call, outsideIpc>>

\* named_pipe_ipc.cpp 44-58 as called from main.cpp 60-64 and 82-85:
\* ConnectNamedPipe returns once a client is connected
\* (ERROR_PIPE_CONNECTED counts as success) and fails with ERROR_NO_DATA
\* when the client has connected and closed its handle before the call.
SrvWaitForClient ==
    /\ ipc_srv.pc = "wait"
    /\ ipc_cli.connected \/ ipc_cli.gone
    /\ IF ipc_cli.connected
       THEN ipc_srv' = [ipc_srv EXCEPT !.pc = "read_header", !.session = @ + 1]
       ELSE ipc_srv' = Exited(IF ipc_srv.recovering THEN 0 ELSE 1)
    /\ UNCHANGED <<pipe, ipc_cli, ipc_call, outsideIpc>>

\* ReadFile on an empty pipe waits while the client holds its handle and
\* fails with ERROR_BROKEN_PIPE once the client has closed it.
ReadFileFails == pipe = <<>> /\ ~ipc_cli.connected
ReadFileReturns(requested, chunk) ==
    chunk \in 1..Min(requested, Len(pipe))

\* named_pipe_ipc.cpp 60-78 as called from main.cpp 72-73 and 88-89: one
\* ReadFile for the header, whose byte count is not looked at; the empty
\* message; the size limit.
SrvReadHeader ==
    /\ ipc_srv.pc = "read_header"
    /\ \/ /\ ReadFileFails
          /\ ipc_srv' = [ipc_srv EXCEPT !.pc = "failed", !.read_failed = TRUE]
          /\ UNCHANGED pipe
       \/ \E chunk \in 1..4 :
            /\ ReadFileReturns(4, chunk)
            /\ pipe' = Drop(pipe, chunk)
            /\ LET size == SizeFromBytes(SubSeq(pipe, 1, chunk))
                   short == ipc_srv.short_header \/ chunk < 4
               IN IF size = 0
                  THEN ipc_srv' = [ipc_srv EXCEPT !.received = Append(@, <<>>),
                                                  !.short_header = short]
                  ELSE IF size > MAX_MSG_SIZE
                  THEN ipc_srv' = [ipc_srv EXCEPT !.pc = "failed", !.read_failed = TRUE,
                                                  !.short_header = short]
                  ELSE ipc_srv' = [ipc_srv EXCEPT !.pc = "read_payload",
                                                  !.to_read = size, !.out_msg = <<>>,
                                                  !.short_header = short]
    /\ UNCHANGED <<ipc_cli, ipc_call, outsideIpc>>

\* named_pipe_ipc.cpp 79-92: one ReadFile of the payload loop; main.cpp
\* 88-89 takes the message when the loop ends.
SrvReadPayload ==
    /\ ipc_srv.pc = "read_payload"
    /\ \/ /\ ReadFileFails
          /\ ipc_srv' = [ipc_srv EXCEPT !.pc = "failed", !.read_failed = TRUE,
                                        !.to_read = 0, !.out_msg = <<>>]
          /\ UNCHANGED pipe
       \/ \E chunk \in 1..Len(pipe) :
            /\ ReadFileReturns(ipc_srv.to_read, chunk)
            /\ pipe' = Drop(pipe, chunk)
            /\ LET buffer == ipc_srv.out_msg \o SubSeq(pipe, 1, chunk)
               IN IF ipc_srv.to_read = chunk
                  THEN ipc_srv' = [ipc_srv EXCEPT !.pc = "read_header", !.to_read = 0,
                                                  !.out_msg = <<>>,
                                                  !.received = Append(@, buffer)]
                  ELSE ipc_srv' = [ipc_srv EXCEPT !.to_read = @ - chunk,
                                                  !.out_msg = buffer]
    /\ UNCHANGED <<ipc_cli, ipc_call, outsideIpc>>

\* main.cpp 73-76 with named_pipe_ipc.cpp 126-133: after a failed
\* ReadMessage the instance is flushed, disconnected and closed; unread
\* bytes are discarded and the client's end is broken.
SrvClose ==
    /\ ipc_srv.pc = "failed"
    /\ ipc_srv' = [ipc_srv EXCEPT !.pc = "start", !.recovering = TRUE, !.received = <<>>,
                                  !.short_header = FALSE]
    /\ pipe' = <<>>
    /\ ipc_cli' = [NoClient EXCEPT !.n = ipc_cli.n]
    /\ UNCHANGED <<ipc_call, outsideIpc>>

IpcNext ==
    \/ SrvStart
    \/ CliConnect
    \/ \E msg \in IpcMessages : CliWriteMessage(msg)
    \/ \E msg \in IpcMessages, sent_bytes \in 0..1 : CliWriteTruncated(msg, sent_bytes)
    \/ CliWriteOversized
    \/ CliClose
    \/ SrvWaitForClient
    \/ SrvReadHeader
    \/ SrvReadPayload
    \/ SrvClose

SpecIpc == IpcInit /\ [][IpcNext]_vars

IsPrefix(s, t) == Len(s) <= Len(t) /\ SubSeq(t, 1, Len(s)) = s

\* C28: the messages ReadMessage has returned from a client that writes
\* with WriteMessage are, in order, the messages that client has sent,
\* whatever chunks the reads return.
C28_FramingRoundTrips ==
    ~ipc_cli.foreign => IsPrefix(ipc_srv.received, ipc_cli.sent)

\* C30: a failed ReadMessage does not end the core service: it closes,
\* reopens the pipe and goes on to serve the next client.
C30_ServerRecoversAfterFailedRead ==
    ipc_srv.read_failed => ipc_srv.pc # "exited"

\* --------------------------------------------------- IPC message size limit
\* WriteMessage and ReadMessage (server: named_pipe_ipc.cpp 60-124, client:
\* 162-223) as functions of the message size.  A std::vector size is 64 bits
\* wide: it is written wraps * 2^32 + low.
MaxWraps == 1              \* message sizes up to (MaxWraps + 1) * 2^32 are tried

LowSizes ==
    {0, 1, 5, MAX_MSG_SIZE - 1, MAX_MSG_SIZE, MAX_MSG_SIZE + 1, 2 * MAX_MSG_SIZE, 2^30,
     IntMax}

IpcSizes == [wraps : 0..MaxWraps, low : LowSizes]
IpcEndpoints == {"server", "client"}

\* named_pipe_ipc.cpp 98, 197: (uint32_t)msg.size() keeps the low 32 bits.
CastUint32(size) == size.low

\* named_pipe_ipc.cpp 95-124, 194-223: WriteMessage with a pipe that takes
\* every byte: the result, the header value and the bytes put on the pipe.
WriteMessage(size) ==
    LET size32 == CastUint32(size)
    IN IF size32 > MAX_MSG_SIZE
       THEN [ok |-> FALSE, header |-> 0, header_bytes |-> 0, payload_bytes |-> 0]
       ELSE [ok |-> TRUE, header |-> size32, header_bytes |-> 4, payload_bytes |-> size32]

\* named_pipe_ipc.cpp 60-93, 162-192: ReadMessage for a header value, with
\* a pipe that supplies every byte asked for: the result and the payload
\* bytes read.
ReadMessage(size32) ==
    IF size32 = 0 THEN [ok |-> TRUE, payload_bytes |-> 0]
    ELSE IF size32 > MAX_MSG_SIZE THEN [ok |-> FALSE, payload_bytes |-> 0]
    ELSE [ok |-> TRUE, payload_bytes |-> size32]

IpcLimitsInit ==
    /\ JobIdle
    /\ DefenceIdle
    /\ RetryIdle
    /\ HeartbeatIdle
    /\ WatchdogIdle
    /\ EvidenceIdle
    /\ WatchdogThreadsIdle
    /\ ConfigIdle
    /\ PostIdle
    /\ SigningIdle
    /\ LauncherIdle
    /\ PipeNameIdle
    /\ pipe = <<>>
    /\ ipc_srv = NoServer
    /\ ipc_cli = NoClient
    /\ \E op \in {"write", "read"}, endpoint \in IpcEndpoints, size \in IpcSizes :
         /\ op = "read" => size.wraps = 0
         /\ ipc_call = [NoIpcCall EXCEPT !.op = op, !.endpoint = endpoint, !.size = size]

IpcWriteCall ==
    /\ ipc_call.op = "write"
    /\ ~ipc_call.done
    /\ LET r == WriteMessage(ipc_call.size)
       IN ipc_call' = [ipc_call EXCEPT !.done = TRUE, !.ok = r.ok, !.header = r.header,
                                       !.bytes = r.header_bytes + r.payload_bytes]
    /\ UNCHANGED <<pipe, ipc_srv, ipc_cli, outsideIpc>>

IpcReadCall ==
    /\ ipc_call.op = "read"
    /\ ~ipc_call.done
    /\ LET r == ReadMessage(CastUint32(ipc_call.size))
       IN ipc_call' = [ipc_call EXCEPT !.done = TRUE, !.ok = r.ok,
                                       !.header = CastUint32(ipc_call.size),
                                       !.bytes = r.payload_bytes]
    /\ UNCHANGED <<pipe, ipc_srv, ipc_cli, outsideIpc>>

IpcLimitsNext ==
    \/ IpcWriteCall
    \/ IpcReadCall

SpecIpcLimits == IpcLimitsInit /\ [][IpcLimitsNext]_vars

\* The size is above the 16 MiB limit.
AboveLimit(size) == size.wraps > 0 \/ size.low > 16 * 1024 * 1024

\* C29: for every message longer than 16 MiB, lengths beyond 32 bits
\* included, WriteMessage returns false and puts no byte on the pipe; for
\* every header above 16 MiB ReadMessage returns false and reads no payload.
C29_OversizedRefusedWithoutBytes ==
    (ipc_call.done /\ AboveLimit(ipc_call.size)) =>
        /\ ~ipc_call.ok
        /\ ipc_call.bytes = 0

\* ------------------------------------------------------------- pipe names
\* named_pipe_ipc.cpp 9-32 and 138-144.  A name is a sequence of wide
\* characters; the names tried are built from single characters and from
\* the pipe prefix.
MaxNameLen == 2            \* pieces (characters or the prefix) a name is built from
MaxSignTime == 2           \* largest timestamp a signature is made with
MaxWtCalls == 3            \* calls of Start, Stop and the destructor that are begun

\* L"\\\\.\\pipe\\" (named_pipe_ipc.cpp 25, 139).
PipePrefix == <<"\\", "\\", ".", "\\", "p", "i", "p", "e", "\\">>

\* L"tamsil_agent_pipe" (named_pipe_ipc.cpp 20).
DefaultPipeName ==
    <<"t", "a", "m", "s", "i", "l", "_", "a", "g", "e", "n", "t", "_", "p", "i", "p", "e">>

\* ASCII letters and digits, and U+00E9 as a letter outside ASCII.
AsciiAlnum == {"a", "Z", "7", "p", "i", "e", "t", "m", "s", "l", "g", "n"}
NameChars == {"a", "Z", "7", "_", "-", ".", "\\", ":", "/", " ", "$", "é"}

\* iswalnum (named_pipe_ipc.cpp 13) classifies by the Unicode tables.
iswalnum(c) == c \in AsciiAlnum \cup {"é"}

RECURSIVE Concat(_)
Concat(pieces) == IF pieces = <<>> THEN <<>> ELSE Head(pieces) \o Concat(Tail(pieces))

NamePieces == {<<c>> : c \in NameChars} \cup {PipePrefix}
PipeNames ==
    {Concat(pieces) : pieces \in UNION {[1..n -> NamePieces] : n \in 0..MaxNameLen}}

RECURSIVE SanitizeReplacingAll(_)
SanitizeReplacingAll(in) ==
    IF in = <<>> THEN <<>>
    ELSE (IF iswalnum(Head(in)) \/ Head(in) = "_" \/ Head(in) = "-"
          THEN <<Head(in)>> ELSE <<"_">>) \o SanitizeReplacingAll(Tail(in))

SanitizePipeNameNoSkip(in) ==
    IF SanitizeReplacingAll(in) = <<>> THEN DefaultPipeName ELSE SanitizeReplacingAll(in)

\* named_pipe_ipc.cpp 12-19: the loop over the characters.
RECURSIVE SanitizeLoop(_)
SanitizeLoop(in) ==
    IF in = <<>> THEN <<>>
    ELSE LET c == Head(in)
         IN (IF iswalnum(c) \/ c = "_" \/ c = "-" THEN <<c>>
             ELSE IF c = "\\" \/ c = "." \/ c = ":" \/ c = "/" THEN <<>>
             ELSE <<"_">>) \o SanitizeLoop(Tail(in))

\* named_pipe_ipc.cpp 9-22.
SanitizePipeName(in) ==
    IF SanitizeLoop(in) = <<>> THEN DefaultPipeName ELSE SanitizeLoop(in)

\* named_pipe_ipc.cpp 28-30, 141-143: a leading prefix is cut off once.
StripPrefix(name) ==
    IF Len(name) >= Len(PipePrefix) /\ SubSeq(name, 1, Len(PipePrefix)) = PipePrefix
    THEN SubSeq(name, Len(PipePrefix) + 1, Len(name))
    ELSE name

\* named_pipe_ipc.cpp 25-32: the path NamedPipeServer::Start creates.
ServerFullPath(pipe_name) == PipePrefix \o SanitizePipeName(StripPrefix(pipe_name))

\* named_pipe_ipc.cpp 139-144: the path NamedPipeClient::Connect opens.
ClientFullPath(pipe_name) == PipePrefix \o StripPrefix(pipe_name)

PipeNameInit ==
    /\ JobIdle
    /\ DefenceIdle
    /\ RetryIdle
    /\ HeartbeatIdle
    /\ WatchdogIdle
    /\ EvidenceIdle
    /\ IpcIdle
    /\ WatchdogThreadsIdle
    /\ ConfigIdle
    /\ PostIdle
    /\ SigningIdle
    /\ LauncherIdle
    /\ \E name \in PipeNames : pn = [NoPipeName EXCEPT !.name = name]

ResolvePipeName ==
    /\ ~pn.done
    /\ pn' = [pn EXCEPT !.done = TRUE,
                        !.sanitised = SanitizePipeName(pn.name),
                        !.server_path = ServerFullPath(pn.name),
                        !.client_path = ClientFullPath(pn.name)]
    /\ UNCHANGED outsidePipeName

PipeNameNext == ResolvePipeName

SpecPipeName == PipeNameInit /\ [][PipeNameNext]_vars

AllowedAscii == AsciiAlnum \cup {"_", "-"}
PathSeparators == {"\\", ".", ":", "/"}
Kept(c) == iswalnum(c) \/ c \in {"_", "-"}

\* The input without its path separators, other characters that are not
\* kept standing as '_'.
Expected(in) ==
    LET rest == SelectSeq(in, LAMBDA c : c \notin PathSeparators)
    IN [i \in 1..Len(rest) |-> IF Kept(rest[i]) THEN rest[i] ELSE "_"]

C39_ServerAndClientPathsAgree ==
    pn.done => pn.server_path = pn.client_path

\* ---------------------------------------------------------------- launcher
\* src/agent/src/launcher/main.cpp.  The worker thread (ServiceMain's thread
\* when run as a service), the service control handler and the console
\* thread are interleaved statement by statement; a worker process can exit
\* by itself at any time.

\* main.cpp 44-49: agent_core, agent_sensor, agent_execution, agent_watchdog.
ChildrenNames == 1..4
ExitCodes == {0, 1}

NoProcess == [state |-> "none", exit_code |-> 0, signalled |-> FALSE, handles |-> FALSE]

LauncherInit ==
    /\ JobIdle
    /\ DefenceIdle
    /\ RetryIdle
    /\ HeartbeatIdle
    /\ WatchdogIdle
    /\ EvidenceIdle
    /\ IpcIdle
    /\ WatchdogThreadsIdle
    /\ ConfigIdle
    /\ PostIdle
    /\ SigningIdle
    /\ PipeNameIdle
    /\ lch_procs = [i \in ChildrenNames |-> NoProcess]
    /\ \E mode \in {"service", "console"} :
         lch = [NoLauncher EXCEPT !.mode = mode,
                                  !.pc = IF mode = "service" THEN "sm_register"
                                         ELSE "con_event"]

\* main.cpp 77-84: ServiceMain registers the handler and reports
\* START_PENDING, accepting the stop control.
SmRegister ==
    /\ lch.pc = "sm_register"
    /\ lch' = [lch EXCEPT !.pc = "sm_event", !.status = "START_PENDING"]
    /\ UNCHANGED <<lch_procs, outsideLauncher>>

\* main.cpp 86-93.
SmCreateEvent ==
    /\ lch.pc = "sm_event"
    /\ lch' = [lch EXCEPT !.pc = "sm_running", !.stop_event = "unset"]
    /\ UNCHANGED <<lch_procs, outsideLauncher>>

\* main.cpp 95-98: RUNNING is reported and WorkerRun entered.
SmRunning ==
    /\ lch.pc = "sm_running"
    /\ lch' = [lch EXCEPT !.pc = "start", !.next = 1, !.status = "RUNNING"]
    /\ UNCHANGED <<lch_procs, outsideLauncher>>

\* main.cpp 173-180: not started by the SCM; the event is created and the
\* worker thread started.
ConsoleStart ==
    /\ lch.pc = "con_event"
    /\ lch' = [lch EXCEPT !.pc = "start", !.next = 1, !.stop_event = "unset",
                          !.console = "prompt"]
    /\ UNCHANGED <<lch_procs, outsideLauncher>>

\* main.cpp 20-32 as called from 51-54: CreateProcessW starts the child or
\* fails; the result of StartChild is not looked at.
StartChild ==
    /\ lch.pc = "start"
    /\ \E created \in BOOLEAN :
         /\ lch' = [lch EXCEPT !.children = IF created THEN Append(@, lch.next) ELSE @,
                               !.next = @ + 1,
                               !.pc = IF lch.next = 4 THEN "wait" ELSE "start"]
         /\ lch_procs' = IF created
                         THEN [lch_procs EXCEPT ![lch.next] =
                                 [state |-> "running", exit_code |-> 0,
                                  signalled |-> FALSE, handles |-> TRUE]]
                         ELSE lch_procs
    /\ UNCHANGED outsideLauncher

\* A worker process ends by itself.
ChildExits(i, code) ==
    /\ lch_procs[i].state = "running"
    /\ lch_procs' = [lch_procs EXCEPT ![i].state = "exited", ![i].exit_code = code]
    /\ UNCHANGED <<lch, outsideLauncher>>

\* main.cpp 57: WaitForSingleObject(g_stopEvent, INFINITE) returns.
WorkerWake ==
    /\ lch.pc = "wait"
    /\ lch.stop_event = "set"
    /\ lch' = [lch EXCEPT !.pc = "shutdown"]
    /\ UNCHANGED <<lch_procs, outsideLauncher>>

\* main.cpp 35-39: one iteration of ShutdownChildren's loop.
ShutdownChild ==
    /\ lch.pc = "shutdown"
    /\ lch.children # <<>>
    /\ LET i == Head(lch.children)
       IN lch_procs' = [lch_procs EXCEPT
            ![i].state = IF @ = "running" THEN "killed" ELSE @,
            ![i].handles = FALSE]
    /\ lch' = [lch EXCEPT !.children = Tail(@)]
    /\ UNCHANGED outsideLauncher

\* main.cpp 40 and 59, then 100 (service) or 183-184 (console).
WorkerReturn ==
    /\ lch.pc = "shutdown"
    /\ lch.children = <<>>
    /\ lch' = [lch EXCEPT !.pc = "returned", !.stop_event = "closed",
                          !.console = IF lch.mode = "console" THEN "joined" ELSE @]
    /\ UNCHANGED <<lch_procs, outsideLauncher>>

\* main.cpp 64-66: the stop control arrives; STOP_PENDING is reported.
CtrlStopPending ==
    /\ lch.mode = "service"
    /\ lch.status \in {"START_PENDING", "RUNNING"}
    /\ lch.ctrl = "idle"
    /\ lch' = [lch EXCEPT !.ctrl = "pending", !.status = "STOP_PENDING"]
    /\ UNCHANGED <<lch_procs, outsideLauncher>>

\* main.cpp 67: if (g_stopEvent) SetEvent(g_stopEvent).
CtrlSetEvent ==
    /\ lch.ctrl = "pending"
    /\ lch' = [lch EXCEPT !.ctrl = "signalled",
                          !.stop_event = IF @ = "unset" THEN "set" ELSE @]
    /\ UNCHANGED <<lch_procs, outsideLauncher>>

\* main.cpp 68-69: STOPPED is reported.
CtrlStopped ==
    /\ lch.ctrl = "signalled"
    /\ lch' = [lch EXCEPT !.ctrl = "done", !.status = "STOPPED"]
    /\ UNCHANGED <<lch_procs, outsideLauncher>>

\* main.cpp 181-182: Enter is pressed; SetEvent.
ConsoleEnter ==
    /\ lch.console = "prompt"
    /\ lch' = [lch EXCEPT !.console = "stopping", !.stop_event = "set"]
    /\ UNCHANGED <<lch_procs, outsideLauncher>>

LauncherSteps ==
    \/ SmRegister
    \/ SmCreateEvent
    \/ SmRunning
    \/ ConsoleStart
    \/ StartChild
    \/ WorkerWake
    \/ ShutdownChild
    \/ WorkerReturn
    \/ CtrlSetEvent
    \/ CtrlStopped

LauncherNext ==
    \/ LauncherSteps
    \/ \E i \in ChildrenNames, code \in ExitCodes : ChildExits(i, code)
    \/ CtrlStopPending
    \/ ConsoleEnter

SpecLauncher == LauncherInit /\ [][LauncherNext]_vars

\* The launcher's own statements are executed when they can be; when a
\* stop arrives and when a worker process exits is up to the environment.
SpecLauncherFair == SpecLauncher /\ WF_vars(LauncherSteps)

StopRequested == lch.ctrl # "idle" \/ lch.console \in {"stopping", "joined"}

\* C32: a worker that exited with a non-zero code before a stop was
\* requested is running again later (or a stop has been requested).
C32_FailedWorkerIsRestarted ==
    \A i \in ChildrenNames :
        (lch_procs[i].state = "exited" /\ lch_procs[i].exit_code # 0 /\ ~StopRequested)
            ~> (lch_procs[i].state = "running" \/ StopRequested)

\* C33: a child is force-terminated only after it was signalled to
\* terminate gracefully.
C33_ForceOnlyAfterGracefulSignal ==
    \A i \in ChildrenNames : lch_procs[i].state = "killed" => lch_procs[i].signalled

\* C40: while SERVICE_STOPPED is the reported status no child is running.
C40_StoppedOnlyAfterChildrenTerminated ==
    lch.status = "STOPPED" => \A i \in ChildrenNames : lch_procs[i].state # "running"

\* ------------------------------------------------------ signing round trip
\* src/agent/src/agent_signing.cpp 26-72.  A signature is made with one
\* key, payload and timestamp and verified with the same ones, with
\* another key, with the next second and with another payload.

SigningKeys == {"k", "j", "kk"}
SigningPayloads == {"", "{}", "{\"a\":1}", "1.{}"}
SigningTimestamps == 0..MaxSignTime

SigningInit ==
    /\ JobIdle
    /\ DefenceIdle
    /\ RetryIdle
    /\ HeartbeatIdle
    /\ WatchdogIdle
    /\ EvidenceIdle
    /\ IpcIdle
    /\ WatchdogThreadsIdle
    /\ ConfigIdle
    /\ PostIdle
    /\ PipeNameIdle
    /\ LauncherIdle
    /\ sgn \in [shared_key : SigningKeys, payload : SigningPayloads,
                timestamp_seconds : SigningTimestamps,
                other_key : SigningKeys, other_payload : SigningPayloads,
                signature : {NoSignature}, verified : {<<>>}, done : {FALSE}]

\* agent_signing.cpp 26-48 and 63-72.
SignAndVerify ==
    /\ ~sgn.done
    /\ LET signature == SignPayload(sgn.shared_key, sgn.payload, sgn.timestamp_seconds)
       IN sgn' = [sgn EXCEPT
            !.signature = signature,
            !.verified =
                [same |-> VerifySignature(sgn.shared_key, sgn.payload,
                                          sgn.timestamp_seconds, signature),
                 key |-> VerifySignature(sgn.other_key, sgn.payload,
                                         sgn.timestamp_seconds, signature),
                 timestamp |-> VerifySignature(sgn.shared_key, sgn.payload,
                                               sgn.timestamp_seconds + 1, signature),
                 payload |-> VerifySignature(sgn.shared_key, sgn.other_payload,
                                             sgn.timestamp_seconds, signature)],
            !.done = TRUE]
    /\ UNCHANGED outsideSigning

SigningNext == SignAndVerify

SpecSigning == SigningInit /\ [][SigningNext]_vars

Exchanges == [curl_ok : BOOLEAN, http_code : StatusCodes \cup {0, 201}]

\* agent_patch_jobs.cpp 96-126: the headers cannot be signed without a key.
BuildSignedHeaders(shared_key) == shared_key # ""

\* agent_patch_jobs.cpp 166-191: curl_easy_init, the signed headers,
\* curl_easy_perform; the result is `result == CURLE_OK`.
PostJson(shared_key, curl_init_ok, exchange) ==
    IF ~curl_init_ok THEN FALSE
    ELSE IF ~BuildSignedHeaders(shared_key) THEN FALSE
    ELSE exchange.curl_ok

PostInit ==
    /\ JobIdle
    /\ DefenceIdle
    /\ RetryIdle
    /\ HeartbeatIdle
    /\ WatchdogIdle
    /\ EvidenceIdle
    /\ IpcIdle
    /\ WatchdogThreadsIdle
    /\ ConfigIdle
    /\ PipeNameIdle
    /\ LauncherIdle
    /\ SigningIdle
    /\ post \in [shared_key : {"", ControlPlaneKey}, curl_init_ok : BOOLEAN,
                 exchange : Exchanges, call : {"none"}, sent : {FALSE}, ok : {FALSE}]

PostCall(call) ==
    /\ post.call = "none"
    /\ post' = [post EXCEPT
         !.call = call,
         !.sent = post.curl_init_ok /\ BuildSignedHeaders(post.shared_key),
         !.ok = PostJson(post.shared_key, post.curl_init_ok, post.exchange)]
    /\ UNCHANGED outsidePost

\* agent_patch_jobs.cpp 385-401.
AcknowledgePatchJob == PostCall("ack")

\* agent_patch_jobs.cpp 403-424.
ReportPatchResultCall == PostCall("result")

PostNext ==
    \/ AcknowledgePatchJob
    \/ ReportPatchResultCall

SpecPost == PostInit /\ [][PostNext]_vars

Is2xx(code) == code >= 200 /\ code < 300

\* C35: AcknowledgePatchJob and ReportPatchResult report success exactly
\* when the request was sent, the transfer succeeded and the server
\* answered with a 2xx status.
C35_SuccessOnlyOn2xx ==
    (post # <<>> /\ post.call # "none") =>
        (post.ok <=> (post.sent /\ post.exchange.curl_ok /\ Is2xx(post.exchange.http_code)))

\* ---------------------------------------------------------- configuration
\* src/agent/src/agent_config.cpp.  Three of LoadConfig's options stand for
\* the rest: one with a non-empty default, one with an empty default and one
\* whose empty result is replaced by a detected value.

ConfigOptions == {"transport_url", "shared_key", "hostname"}

\* agent_config.cpp 88, 111, 93: the fallback argument.
Fallback(option) == IF option = "transport_url" THEN "https://10.252.0.2:8085" ELSE ""

\* A key of the [agent] section or an environment variable: absent, or
\* present with a text.
Unset == [set |-> FALSE, text |-> ""]
IniValues == {Unset, [set |-> TRUE, text |-> ""], [set |-> TRUE, text |-> "from-ini"]}
EnvValues == {Unset, [set |-> TRUE, text |-> ""], [set |-> TRUE, text |-> "from-env"]}

\* agent_system: the host name the operating system reports.
DetectHostname == "detected-host"

\* agent_config.cpp 47-53.
GetIniOrEnv(ini, env, option) ==
    IF ini[option].set /\ ini[option].text # "" THEN ini[option].text
    ELSE IF env[option].set THEN env[option].text
    ELSE Fallback(option)

\* agent_config.cpp 85-119.
LoadConfig(ini, env) ==
    [transport_url |-> GetIniOrEnv(ini, env, "transport_url"),
     shared_key |-> GetIniOrEnv(ini, env, "shared_key"),
     hostname |-> IF GetIniOrEnv(ini, env, "hostname") = "" THEN DetectHostname
                  ELSE GetIniOrEnv(ini, env, "hostname")]

ConfigInit ==
    /\ JobIdle
    /\ DefenceIdle
    /\ RetryIdle
    /\ HeartbeatIdle
    /\ WatchdogIdle
    /\ EvidenceIdle
    /\ IpcIdle
    /\ WatchdogThreadsIdle
    /\ PipeNameIdle
    /\ LauncherIdle
    /\ SigningIdle
    /\ PostIdle
    /\ cfgload \in [ini : [ConfigOptions -> IniValues], env : [ConfigOptions -> EnvValues],
                    config : {<<>>}, loaded : {FALSE}]

LoadConfigCall ==
    /\ ~cfgload.loaded
    /\ cfgload' = [cfgload EXCEPT !.config = LoadConfig(cfgload.ini, cfgload.env),
                                  !.loaded = TRUE]
    /\ UNCHANGED outsideConfig

ConfigNext == LoadConfigCall

SpecConfig == ConfigInit /\ [][ConfigNext]_vars

\* C36: for every option a set (non-empty) environment variable decides the
\* value whatever the INI file says, and without one a non-empty INI value
\* decides it.
C36_EnvironmentOverridesIni ==
    (cfgload # <<>> /\ cfgload.loaded) =>
        \A option \in ConfigOptions :
            /\ (cfgload.env[option].set /\ cfgload.env[option].text # "")
                  => cfgload.config[option] = cfgload.env[option].text
            /\ (~cfgload.env[option].set /\ cfgload.ini[option].set
                  /\ cfgload.ini[option].text # "")
                  => cfgload.config[option] = cfgload.ini[option].text

\* -------------------------------------------------------- job-loop liveness
\* main.cpp 61-142 is one sequential loop: every call in it returns and the
\* next statement is executed, so no step that is possible is put off for
\* ever.
SpecLive == Spec /\ WF_vars(Next)

TerminalAckAttempted ==
    /\ pc = "done"
    /\ log # <<>>
    /\ Last(log).type = "ack"
    /\ Last(log).status = "completed"
    /\ attempts # <<>>
    /\ Last(attempts).step = "ack"

WtCallers == 1..2
WtThreadIds == 1..MaxWtCalls

NoWorker == 0

WatchdogThreadsInit ==
    /\ JobIdle
    /\ DefenceIdle
    /\ RetryIdle
    /\ HeartbeatIdle
    /\ WatchdogIdle
    /\ EvidenceIdle
    /\ IpcIdle
    /\ PipeNameIdle
    /\ LauncherIdle
    /\ SigningIdle
    /\ PostIdle
    /\ ConfigIdle
    /\ wt = [running |-> FALSE, worker |-> NoWorker,
             threads |-> [n \in WtThreadIds |-> "none"],
             calls |-> 0, terminated |-> FALSE, destructing |-> FALSE,
             destroyed |-> FALSE, skipped_join |-> FALSE]
    /\ wt_callers = [c \in WtCallers |-> [pc |-> "idle", op |-> "none", target |-> NoWorker]]

CallerMayCall(c) ==
    /\ ~wt.terminated
    /\ ~wt.destructing
    /\ wt_callers[c].pc = "idle"
    /\ wt.calls < MaxWtCalls

Return(c) == [wt_callers EXCEPT ![c] = [pc |-> "idle", op |-> "none", target |-> NoWorker]]

\* agent_watchdog.cpp 22-24: running_.exchange(true).
StartExchange(c) ==
    /\ CallerMayCall(c)
    /\ wt' = [wt EXCEPT !.running = TRUE, !.calls = @ + 1]
    /\ wt_callers' = IF wt.running THEN Return(c)
                     ELSE [wt_callers EXCEPT ![c] = [pc |-> "start_thread", op |-> "start",
                                                      target |-> NoWorker]]
    /\ UNCHANGED outsideWatchdogThreads

\* agent_watchdog.cpp 25-26: the new thread is constructed and then
\* move-assigned to worker_.
StartThread(c) ==
    /\ ~wt.terminated
    /\ wt_callers[c].pc = "start_thread"
    /\ LET n == CHOOSE n \in WtThreadIds : wt.threads[n] = "none" IN
         wt' = [wt EXCEPT !.threads[n] = "live",
                          !.worker = IF wt.worker = NoWorker THEN n ELSE @,
                          !.terminated = (wt.worker # NoWorker)]
    /\ wt_callers' = Return(c)
    /\ UNCHANGED outsideWatchdogThreads

\* agent_watchdog.cpp 30-32 (and 19): running_.exchange(false).
StopExchange(c, op) ==
    /\ CallerMayCall(c)
    /\ wt' = [wt EXCEPT !.running = FALSE, !.calls = @ + 1,
                        !.destructing = (op = "destroy")]
    /\ wt_callers' = IF wt.running
                     THEN [wt_callers EXCEPT ![c] = [pc |-> "stop_joinable", op |-> op,
                                                      target |-> NoWorker]]
                     ELSE IF op = "destroy"
                     THEN [wt_callers EXCEPT ![c] = [pc |-> "destroy_members", op |-> op,
                                                      target |-> NoWorker]]
                     ELSE Return(c)
    /\ UNCHANGED outsideWatchdogThreads

\* agent_watchdog.cpp 33: worker_.joinable().
StopJoinable(c) ==
    /\ ~wt.terminated
    /\ wt_callers[c].pc = "stop_joinable"
    /\ IF wt.worker # NoWorker
       THEN /\ wt_callers' = [wt_callers EXCEPT ![c].pc = "stop_join",
                                                ![c].target = wt.worker]
            /\ wt' = wt
       ELSE /\ wt_callers' = IF wt_callers[c].op = "destroy"
                             THEN [wt_callers EXCEPT ![c].pc = "destroy_members"]
                             ELSE Return(c)
            /\ wt' = [wt EXCEPT !.skipped_join = TRUE]
    /\ UNCHANGED outsideWatchdogThreads

\* agent_watchdog.cpp 34: worker_.join() returns once the thread has ended.
StopJoin(c) ==
    /\ ~wt.terminated
    /\ wt_callers[c].pc = "stop_join"
    /\ wt.threads[wt_callers[c].target] = "exited"
    /\ wt' = [wt EXCEPT !.threads[wt_callers[c].target] = "joined",
                        !.worker = IF @ = wt_callers[c].target THEN NoWorker ELSE @]
    /\ wt_callers' = IF wt_callers[c].op = "destroy"
                     THEN [wt_callers EXCEPT ![c].pc = "destroy_members"]
                     ELSE Return(c)
    /\ UNCHANGED outsideWatchdogThreads

\* agent_watchdog.cpp 19, after Stop(): worker_ is destroyed.
DestroyMembers(c) ==
    /\ ~wt.terminated
    /\ wt_callers[c].pc = "destroy_members"
    /\ wt' = [wt EXCEPT !.destroyed = TRUE, !.terminated = (wt.worker # NoWorker)]
    /\ wt_callers' = Return(c)
    /\ UNCHANGED outsideWatchdogThreads

\* agent_watchdog.cpp 41: the worker finds running_ false and returns.
WorkerExits(n) ==
    /\ ~wt.terminated
    /\ wt.threads[n] = "live"
    /\ ~wt.running
    /\ wt' = [wt EXCEPT !.threads[n] = "exited"]
    /\ UNCHANGED <<wt_callers, outsideWatchdogThreads>>

WatchdogThreadsNext ==
    \/ \E c \in WtCallers : StartExchange(c)
    \/ \E c \in WtCallers : StartThread(c)
    \/ \E c \in WtCallers, op \in {"stop", "destroy"} : StopExchange(c, op)
    \/ \E c \in WtCallers : StopJoinable(c)
    \/ \E c \in WtCallers : StopJoin(c)
    \/ \E c \in WtCallers : DestroyMembers(c)
    \/ \E n \in WtThreadIds : WorkerExits(n)

SpecWatchdogThreads == WatchdogThreadsInit /\ [][WatchdogThreadsNext]_vars

LiveWorkers == {n \in WtThreadIds : wt.threads[n] = "live"}

InsideStop == \E c \in WtCallers : wt_callers[c].pc \in {"stop_joinable", "stop_join"}

\* C38: at most one worker thread exists, and running_ is never false with
\* a started worker still unjoined once no Stop is under way.
C38_OneWorkerAndStopJoins ==
    wt # <<>> =>
        /\ Cardinality(LiveWorkers) <= 1
        /\ ~(/\ ~wt.running
             /\ wt.worker # NoWorker
             /\ wt.threads[wt.worker] \in {"live", "exited"}
             /\ wt.skipped_join
             /\ ~InsideStop)

====
